---- MODULE Spec2Model ----
(***************************************************************************)
(* Treasure Chest dependency-injection container: the binding registry,    *)
(* the binding-selection algorithm with its cache, lifecycle dispatch      *)
(* (transient / singleton / scoped / lazy), the resolution stack, the      *)
(* parent/child hierarchy and scopes.                                      *)
(*                                                                         *)
(* resolve() is synchronous and re-entrant: a factory receives the         *)
(* container and calls resolve() again.  The call tree is modelled with an *)
(* explicit stack of frames; one step of the model runs one stretch of     *)
(* engine code between two points where user code (a factory) takes over.  *)
(***************************************************************************)
EXTENDS Naturals, Sequences, FiniteSets, TLC

(***************************************************************************)
(* Bounds of the model.                                                    *)
(***************************************************************************)
\* top-level resolve() calls per behaviour
MaxResolves == 3
\* scopes created per behaviour
MaxScopes == 2
\* Scope.dispose() calls per behaviour
MaxDisposes == 2
\* changes of the external state per behaviour
MaxEnvChanges == 2
\* reset() calls per behaviour
MaxResets == 1

\* has() calls per behaviour
MaxHas == 2

\* reads of Lazy.value per behaviour
MaxReads == 2
\* nested calls the host's call stack holds before it throws a RangeError
MaxDepth == 4

(***************************************************************************)
(* Values of the host language.                                            *)
(***************************************************************************)
\* JavaScript's undefined, for an optional string that is absent
Undef == "<undefined>"

\* truthiness of an optional string: undefined and '' are falsy
Truthy(s) == s # Undef /\ s # ""

\* the containers of the model: root, child == root.createChild(),
\* grandchild == child.createChild(), other == new Container(), and
\* composed == Container.compose([root, other])
Containers == {"root", "child", "grandchild", "other", "composed"}

\* Container.parent, fixed by the constructor
Parent(c) ==
  CASE c = "grandchild" -> "child"
    [] c = "child"      -> "root"
    [] OTHER            -> Undef

\* composed.composedContainers = [...containers]
ComposedContainers(c) == IF c = "composed" THEN << "root", "other" >> ELSE << >>

\* Map.get(k) || dflt
MapGet(m, k, dflt) == IF k \in DOMAIN m THEN m[k] ELSE dflt

\* Map.set(k, v)
MapSet(m, k, v) == (k :> v) @@ m

\* new Map(), Map.clear()
EmptyMap == <<>>

RECURSIVE Join(_, _)
\* Array.prototype.join
Join(s, sep) ==
  IF Len(s) = 0 THEN ""
  ELSE IF Len(s) = 1 THEN s[1]
  ELSE s[1] \o sep \o Join(Tail(s), sep)

\* Array.prototype.includes
Includes(s, x) == \E i \in 1..Len(s) : s[i] = x

\* Array.prototype.pop (a no-op on an empty array)
Pop(s) == IF Len(s) = 0 THEN s ELSE SubSeq(s, 1, Len(s) - 1)

(***************************************************************************)
(* Binding records (types.ts) and the values factories produce.            *)
(***************************************************************************)
Binding(key, factory, lifecycle, condition, context, lazy, dispose) ==
  [key |-> key, factory |-> factory, lifecycle |-> lifecycle,
   condition |-> condition, context |-> context, lazy |-> lazy,
   dispose |-> dispose]

NoBinding == Binding("", "", "", Undef, Undef, FALSE, Undef)

\* the object made by the n-th invocation of factory f; w marks a Lazy wrapper
Value(f, n) == [f |-> f, n |-> n, w |-> FALSE]

NoValue == [f |-> "", n |-> 0, w |-> FALSE]

(***************************************************************************)
(* User code: the factories and condition predicates that get registered.  *)
(* A factory resolves its dependencies in order through the container it   *)
(* is handed, then returns a new object or throws.                         *)
(***************************************************************************)
Dep(key, ctx) == [key |-> key, ctx |-> ctx]

FactoryDeps(f) ==
  CASE f = "fA"     -> << Dep("A", Undef) >>            \* c => c.resolve('A')
    [] f = "fB"     -> << Dep("B", Undef) >>            \* c => c.resolve('B')
    [] f = "fC"     -> << Dep("C", Undef) >>            \* c => c.resolve('C')
    [] f = "fN"     -> << Dep("S", Undef) >>            \* c => c.resolve('S')
    [] f \in {"fUserService", "fAnalyticsService"}
                    -> << Dep("cache", Undef) >>        \* c => c.resolve('cache')
    [] f = "fPeer"  -> << Dep("K", Undef) >>            \* c => c.resolve('K')
    [] OTHER        -> << >>

FactoryThrows(f) == f = "fThrow"

\* the keys services are registered under
Keys == {"K", "T", "A", "B", "C", "S", "N"}

\* (c) => c.resolveFromComposition(key), the factory compose() binds to key
ProxyFactory(key) == "proxy " \o key

IsProxy(f) == \E key \in Keys : f = ProxyFactory(key)

\* external state read by the condition predicates (let env = ...)
EnvValues == {"development", "production", "test"}

VARIABLES
  bindings,         \* Container.bindings: per container, key -> list of bindings
  instances,        \* Container.instances: per container, cache key -> value
  aliases,          \* Container.aliases: per container, alias -> original key
  bindingCache,     \* Container.bindingCache: per container, cache key -> binding
  currentContext,   \* Container.currentContext
  currentScope,     \* Container.currentScope: a scope id, 0 for undefined
  resolutionStack,  \* Container.resolutionStack
  scopes,           \* the Scope objects created so far: instances, disposables
  tasks,            \* Scope.dispose() calls suspended at an await
  handlers,         \* the withScope() and Container.dispose() calls made so
                    \* far, per request handler
  env,              \* the external state the conditions read
  calls,            \* how often each factory has been invoked
  disposed,         \* the dispose callbacks invoked so far, in order
  lazies,           \* the Lazy wrappers created so far
  frames,           \* the resolve() calls in progress, innermost last
  exc,              \* the error being thrown through the frames
  log               \* the completed top-level calls and their outcomes

vars == << bindings, instances, aliases, bindingCache, currentContext,
           currentScope, resolutionStack, scopes, tasks, handlers, env, calls,
           disposed, lazies, frames, exc, log >>

\* the fields of the containers
containerVars == << bindings, instances, aliases, bindingCache, currentContext,
                    currentScope, resolutionStack >>

NoExc == [kind |-> "none", info |-> ""]

\* the request handlers that call withScope() on the shared container
Handlers == {"h1", "h2"}

\* a handler that has not called withScope(): state is where its withScope()
\* call stands, cb and pc the callback and the instruction it is at, s the
\* scope withScope() created, call its dispose() call, got the objects the
\* callback's resolves returned, out what the callback returned or threw
NoHandler ==
  [state |-> "idle", c |-> "", cb |-> "", pc |-> 0, s |-> 0, call |-> 0,
   got |-> << >>, out |-> NoExc]

\* a handler is executing synchronous code
Running == \E h \in Handlers : handlers[h].state = "run"

FactoryNames == {"fK", "fT", "fA", "fB", "fC", "fN", "fS", "fThrow",
                 "fDefault", "fX", "fDev", "fProd",
                 "fHostA", "fContextualHostA", "fHostB", "fContextualHostB",
                 "fUserService", "fAnalyticsService", "fRedisCache",
                 "fMemoryCache", "fConn", "fConfig", "fLogger", "fSelf",
                 "fPeer", "fLazySelf"}
                  \cup {ProxyFactory(key) : key \in Keys}

Init ==
  /\ bindings = [c \in Containers |-> EmptyMap]
  /\ instances = [c \in Containers |-> EmptyMap]
  /\ aliases = [c \in Containers |-> EmptyMap]
  /\ bindingCache = [c \in Containers |-> EmptyMap]
  /\ currentContext = [c \in Containers |-> Undef]
  /\ currentScope = [c \in Containers |-> 0]
  /\ resolutionStack = [c \in Containers |-> << >>]
  /\ scopes = << >>
  /\ tasks = << >>
  /\ handlers = [h \in Handlers |-> NoHandler]
  /\ env = "development"
  /\ calls = [f \in FactoryNames |-> 0]
  /\ disposed = << >>
  /\ lazies = << >>
  /\ frames = << >>
  /\ exc = NoExc
  /\ log = << >>

(***************************************************************************)
(* Outcomes of a call, and the record of completed top-level calls.        *)
(***************************************************************************)
Ok(val) == [kind |-> "ok", val |-> val, info |-> ""]

Err(kind, info) == [kind |-> kind, val |-> NoValue, info |-> info]

\* call numbers the Scope.dispose() calls and names the wrapper of a read of
\* Lazy.value; 0 for every other operation
LogEntry(op, c, key, ctx, out, scope) ==
  [op |-> op, c |-> c, key |-> key, ctx |-> ctx, kind |-> out.kind,
   val |-> out.val, info |-> out.info, scope |-> scope, call |-> 0]

\* the driver may start a top-level call: nothing is running or suspended
Idle == frames = << >> /\ tasks = << >> /\ ~Running

\* how many entries of the log record the operation op
Count(op) == Cardinality({i \in 1..Len(log) : log[i].op = op})

(***************************************************************************)
(* Registration.                                                           *)
(***************************************************************************)
\* existing = bindings.get(key) || []; existing.push(b); bindings.set(key, existing)
pushBinding(c, b) ==
  [bindings EXCEPT ![c] = MapSet(@, b.key, Append(MapGet(@, b.key, << >>), b))]

\* this.bindingCache.clear()
clearBindingCache(c) == [bindingCache EXCEPT ![c] = EmptyMap]

\* the four statements every registration method consists of
register(c, op, b) ==
  /\ Idle
  /\ bindings' = pushBinding(c, b)
  /\ bindingCache' = clearBindingCache(c)
  /\ log' = Append(log, LogEntry(op, c, b.key, b.context,
                                  [Ok(NoValue) EXCEPT !.info = b.factory], currentScope[c]))
  /\ UNCHANGED << instances, aliases, currentContext, currentScope,
                  resolutionStack, scopes, tasks, handlers, env, calls, disposed,
                  lazies, frames, exc >>

\* a bind that registers the binding with the singleton lifecycle
bindAsSingleton(c, key, factory, condition) ==
  register(c, "bind", Binding(key, factory, "singleton", condition, Undef, FALSE, Undef))

bind(c, key, factory, condition) ==
  register(c, "bind", Binding(key, factory, "transient", condition, Undef, FALSE, Undef))

singleton(c, key, factory, condition) ==
  register(c, "singleton", Binding(key, factory, "singleton", condition, Undef, FALSE, Undef))

scoped(c, key, factory, dispose) ==
  register(c, "scoped", Binding(key, factory, "scoped", Undef, Undef, FALSE, dispose))

lazy(c, key, factory, lifecycle) ==
  register(c, "lazy", Binding(key, factory, lifecycle, Undef, Undef, TRUE, Undef))

\* when(context).needs(depKey).give(factory)
when(c, context, depKey, factory) ==
  register(c, "when", Binding(depKey, factory, "transient", Undef, context, FALSE, Undef))

alias(c, aliasKey, originalKey) ==
  /\ Idle
  /\ aliases' = [aliases EXCEPT ![c] = MapSet(@, aliasKey, originalKey)]
  /\ log' = Append(log, LogEntry("alias", c, aliasKey, originalKey, Ok(NoValue), currentScope[c]))
  /\ UNCHANGED << bindings, instances, bindingCache, currentContext,
                  currentScope, resolutionStack, scopes, tasks, handlers, env, calls,
                  disposed, lazies, frames, exc >>

\* a reset() that leaves the instance store alone
resetKeepsInstances(c) ==
  /\ Idle
  /\ Count("reset") < MaxResets
  /\ bindings' = [bindings EXCEPT ![c] = EmptyMap]
  /\ aliases' = [aliases EXCEPT ![c] = EmptyMap]
  /\ bindingCache' = clearBindingCache(c)
  /\ currentContext' = [currentContext EXCEPT ![c] = Undef]
  /\ currentScope' = [currentScope EXCEPT ![c] = 0]
  /\ resolutionStack' = [resolutionStack EXCEPT ![c] = << >>]
  /\ log' = Append(log, LogEntry("reset", c, Undef, Undef, Ok(NoValue), 0))
  /\ UNCHANGED << instances, scopes, tasks, handlers, env, calls, disposed,
                  lazies, frames, exc >>

\* the seven statements of reset()
clearContainer(c) ==
  /\ bindings' = [bindings EXCEPT ![c] = EmptyMap]
  /\ instances' = [instances EXCEPT ![c] = EmptyMap]
  /\ aliases' = [aliases EXCEPT ![c] = EmptyMap]
  /\ bindingCache' = clearBindingCache(c)
  /\ currentContext' = [currentContext EXCEPT ![c] = Undef]
  /\ currentScope' = [currentScope EXCEPT ![c] = 0]
  /\ resolutionStack' = [resolutionStack EXCEPT ![c] = << >>]

\* the application calls c.reset()
reset(c) ==
  /\ Idle
  /\ Count("reset") < MaxResets
  /\ clearContainer(c)
  /\ log' = Append(log, LogEntry("reset", c, Undef, Undef, Ok(NoValue), 0))
  /\ UNCHANGED << scopes, tasks, handlers, env, calls, disposed, lazies,
                  frames, exc >>

\* the test or application changes the state the conditions read
setEnv(e) ==
  /\ Idle
  /\ Count("env") < MaxEnvChanges
  /\ e # env
  /\ env' = e
  /\ log' = Append(log, LogEntry("env", "root", e, Undef, Ok(NoValue), 0))
  /\ UNCHANGED << containerVars, scopes, tasks, handlers, calls, disposed, lazies,
                  frames, exc >>

(***************************************************************************)
(* Binding selection.                                                      *)
(***************************************************************************)
\* a key lookup that ignores the alias table
RealKeyUnaliased(c, key) == key

\* this.aliases.get(key) || key
RealKey(c, key) ==
  IF key \in DOMAIN aliases[c] /\ Truthy(aliases[c][key]) THEN aliases[c][key] ELSE key

\* context ? `${realKey}::${context}` : realKey
CacheKey(realKey, context) ==
  IF Truthy(context) THEN realKey \o "::" \o context ELSE realKey

\* the key a condition predicate resolves through the container it is
\* handed, as (c) => c.resolve('config').debug === true does; undefined for
\* a predicate that only reads the external state.  Such a predicate is true
\* when its resolve returns.
ConditionDep(cond) ==
  CASE cond = "configDebug" -> "config"
    [] cond = "resolvesK"   -> "K"
    [] OTHER                -> Undef

\* the condition predicates that get registered, evaluated now
ConditionHolds(cond) ==
  CASE cond = "isDev"  -> env = "development"
    [] cond = "isProd" -> env = "production"
    [] cond = "never"  -> FALSE
    [] OTHER           -> TRUE

\* !b.condition || b.condition(this)
ConditionOk(b) == b.condition = Undef \/ ConditionHolds(b.condition)

\* Array.prototype.find over the outcomes of the predicate: the index of the
\* first element for which it is true, else 0
FindIndex(flags) ==
  IF \E i \in 1..Len(flags) : flags[i]
  THEN CHOOSE i \in 1..Len(flags) : flags[i] /\ \A j \in 1..(i - 1) : ~flags[j]
  ELSE 0

\* a selection that never looks at the lookup context
selectBindingContextFree(list, context) ==
  LET i2 == FindIndex([i \in 1..Len(list) |->
                         ~Truthy(list[i].context) /\ ConditionOk(list[i])])
  IN IF i2 # 0 THEN list[i2] ELSE list[1]

\* a selection whose last resort is the last binding of the list
selectBindingFallbackLast(list, context) ==
  LET i1 == FindIndex([i \in 1..Len(list) |->
                         list[i].context = context /\ ConditionOk(list[i])])
      i2 == FindIndex([i \in 1..Len(list) |->
                         ~Truthy(list[i].context) /\ ConditionOk(list[i])])
  IN IF i1 # 0 THEN list[i1] ELSE IF i2 # 0 THEN list[i2] ELSE list[Len(list)]

\* a rule that caches conditional bindings too
cacheableAlways(match) == TRUE

\* if (match && !match.condition): only unconditional bindings are cached
cacheable(match) == match.condition = Undef

\* the priority of findBinding over a non-empty list
selectBinding(list, context) ==
  LET i1 == FindIndex([i \in 1..Len(list) |->
                         list[i].context = context /\ ConditionOk(list[i])])
      i2 == FindIndex([i \in 1..Len(list) |->
                         ~Truthy(list[i].context) /\ ConditionOk(list[i])])
  IN IF i1 # 0 THEN list[i1] ELSE IF i2 # 0 THEN list[i2] ELSE list[1]

RECURSIVE findBinding(_, _, _)
\* found: a binding was found; b: the binding; cache: every container's
\* bindingCache after the lookup
findBinding(c, key, context) ==
  LET realKey == RealKey(c, key)
      cacheKey == CacheKey(realKey, context)
      list == MapGet(bindings[c], realKey, << >>)
  IN IF cacheKey \in DOMAIN bindingCache[c]
     THEN [found |-> TRUE, b |-> bindingCache[c][cacheKey], cache |-> bindingCache]
     ELSE IF Len(list) > 0
     THEN LET match == selectBinding(list, context)
          IN [found |-> TRUE, b |-> match,
              cache |-> IF cacheable(match)
                        THEN [bindingCache EXCEPT ![c] = MapSet(@, cacheKey, match)]
                        ELSE bindingCache]
     ELSE IF Parent(c) # Undef
     THEN findBinding(Parent(c), key, context)
     ELSE [found |-> FALSE, b |-> NoBinding, cache |-> bindingCache]

\* the application calls c.has(key): findBinding(key) !== undefined, with
\* whatever the lookup writes into the binding caches
has(c, key) ==
  /\ Idle
  /\ Count("has") < MaxHas
  /\ LET fb == findBinding(c, key, Undef)
     IN /\ bindingCache' = fb.cache
        /\ log' = Append(log, LogEntry("has", c, key, Undef,
                                       [Ok(NoValue) EXCEPT !.info =
                                          IF fb.found THEN "true" ELSE "false"],
                                       currentScope[c]))
  /\ UNCHANGED << bindings, instances, aliases, currentContext, currentScope,
                  resolutionStack, scopes, tasks, handlers, env, calls, disposed,
                  lazies, frames, exc >>

(***************************************************************************)
(* Scopes.                                                                 *)
(***************************************************************************)
\* new Scope()
NewScope == [instances |-> EmptyMap, disposables |-> << >>]

\* factories whose objects have a dispose() method (IDisposable)
FactoryDisposable(f) == f = "fConn"

\* a scope none of whose dispose callbacks fails
DisposeNeverThrows(fn) == FALSE

\* dispose callbacks that throw, or return a promise that is rejected
DisposeThrows(fn) == fn = "failingClose"

\* a Scope.set that queues the dispose callback and forgets the instance
scopeSetForgetful(sc, key, value, dispose) ==
  [instances |-> sc.instances,
   disposables |-> IF Truthy(dispose)
                   THEN Append(sc.disposables, [fn |-> dispose, val |-> value])
                   ELSE sc.disposables]

\* Scope.set(key, value, dispose): the scope's record afterwards
scopeSet(sc, key, value, dispose) ==
  LET fn == IF ~Truthy(dispose) /\ FactoryDisposable(value.f)
            THEN "value.dispose" ELSE dispose
  IN [instances |-> MapSet(sc.instances, key, value),
      disposables |-> IF Truthy(fn)
                      THEN Append(sc.disposables, [fn |-> fn, val |-> value])
                      ELSE sc.disposables]

createScope(c) ==
  /\ Idle
  /\ Len(scopes) < MaxScopes
  /\ scopes' = Append(scopes, NewScope)
  /\ currentScope' = [currentScope EXCEPT ![c] = Len(scopes) + 1]
  /\ log' = Append(log, LogEntry("createScope", c, Undef, Undef, Ok(NoValue), Len(scopes) + 1))
  /\ UNCHANGED << bindings, instances, aliases, bindingCache, currentContext,
                  resolutionStack, tasks, handlers, env, calls, disposed, lazies,
                  frames, exc >>

\* the array a suspended dispose() iterates: the scope's own while the scope
\* still holds it, the detached one after `this.disposables = []`
TaskArray(t) == IF t.live THEN scopes[t.s].disposables ELSE t.arr

\* a dispose callback is invoked (ev = "start") by the call-th dispose(), or
\* the promise it returned is fulfilled (ev = "end") or rejected ("failed")
DisposeEvent(s, entry, call, ev) ==
  [s |-> s, fn |-> entry.fn, val |-> entry.val, call |-> call, ev |-> ev]

\* a dispose() that calls every callback without awaiting any:
\* this.disposables.forEach((disposeFn) => disposeFn())
scopeDisposeNoAwait(s) ==
  LET arr == scopes[s].disposables
      call == Count("dispose") + 1
      entry(op) == [LogEntry(op, Undef, Undef, Undef, Ok(NoValue), s) EXCEPT !.call = call]
  IN /\ scopes' = [scopes EXCEPT ![s] = NewScope]
     /\ log' = log \o << entry("dispose"), entry("disposed") >>
     /\ disposed' = disposed
                      \o [i \in 1..Len(arr) |-> DisposeEvent(s, arr[i], call, "start")]
                      \o [i \in 1..Len(arr) |-> DisposeEvent(s, arr[i], call, "end")]
     /\ UNCHANGED tasks

\* the body of Scope.dispose() up to its first await, or to its end when
\* nothing is queued
scopeDispose(s) ==
  LET arr == scopes[s].disposables
      call == Count("dispose") + 1
      entry(op) == [LogEntry(op, Undef, Undef, Undef, Ok(NoValue), s) EXCEPT !.call = call]
  IN IF Len(arr) = 0
     THEN /\ scopes' = [scopes EXCEPT ![s] = NewScope]
          /\ log' = log \o << entry("dispose"), entry("disposed") >>
          /\ UNCHANGED << tasks, disposed >>
     ELSE /\ disposed' = Append(disposed, DisposeEvent(s, arr[1], call, "start"))
          /\ tasks' = Append(tasks, [s |-> s, idx |-> 2, live |-> TRUE,
                                     arr |-> << >>, call |-> call])
          /\ log' = Append(log, entry("dispose"))
          /\ UNCHANGED scopes

\* the application calls scope.dispose()
dispose(s) ==
  /\ Idle
  /\ s \in 1..Len(scopes)
  /\ Count("dispose") < MaxDisposes
  /\ scopeDispose(s)
  /\ UNCHANGED << containerVars, handlers, env, calls, lazies, frames, exc >>

\* another activity calls scope.dispose() while a dispose() of some scope is
\* suspended at an await, as after an un-awaited scope.dispose()
disposeConcurrent(s) ==
  /\ frames = << >>
  /\ ~Running
  /\ tasks # << >>
  /\ s \in 1..Len(scopes)
  /\ Count("dispose") < MaxDisposes
  /\ scopeDispose(s)
  /\ UNCHANGED << containerVars, handlers, env, calls, lazies, frames, exc >>

\* a suspended dispose() resumes after `await disposeFn()`: the error of a
\* callback that failed leaves dispose() at once, as the rejection of its
\* promise; otherwise the loop goes on, and past its end the scope is cleared
disposeResume(k) ==
  /\ frames = << >>
  /\ ~Running
  /\ k \in 1..Len(tasks)
  /\ LET t == tasks[k]
         arr == TaskArray(t)
     IN IF DisposeThrows(arr[t.idx - 1].fn)
        THEN /\ disposed' = Append(disposed,
                                   DisposeEvent(t.s, arr[t.idx - 1], t.call, "failed"))
             /\ tasks' = [i \in 1..(Len(tasks) - 1) |->
                            IF i < k THEN tasks[i] ELSE tasks[i + 1]]
             /\ log' = Append(log, [LogEntry("disposed", Undef, Undef, Undef,
                                             Err("thrown", arr[t.idx - 1].fn), t.s)
                                      EXCEPT !.call = t.call])
             /\ UNCHANGED scopes
        ELSE IF t.idx <= Len(arr)
        THEN /\ disposed' = disposed \o
                              << DisposeEvent(t.s, arr[t.idx - 1], t.call, "end"),
                                 DisposeEvent(t.s, arr[t.idx], t.call, "start") >>
             /\ tasks' = [tasks EXCEPT ![k].idx = @ + 1]
             /\ UNCHANGED << scopes, log >>
        ELSE /\ scopes' = [scopes EXCEPT ![t.s] = NewScope]
             /\ LET old == scopes[t.s].disposables
                    Detach(i) == IF tasks[i].s = t.s /\ tasks[i].live
                                 THEN [tasks[i] EXCEPT !.live = FALSE, !.arr = old]
                                 ELSE tasks[i]
                    others == [i \in 1..Len(tasks) |-> Detach(i)]
                IN tasks' = [i \in 1..(Len(tasks) - 1) |->
                               IF i < k THEN others[i] ELSE others[i + 1]]
             /\ log' = Append(log, [LogEntry("disposed", Undef, Undef, Undef,
                                             Ok(NoValue), t.s) EXCEPT !.call = t.call])
             /\ disposed' = Append(disposed,
                                   DisposeEvent(t.s, arr[t.idx - 1], t.call, "end"))
  /\ UNCHANGED << containerVars, handlers, env, calls, lazies, frames, exc >>

(***************************************************************************)
(* Lifecycle dispatch.  Each resolveX gives what resolve() does before any *)
(* user code runs: act is "return" (a stored value is returned), "throw",  *)
(* or "invoke" (the factory is to be called); inst and lz are the          *)
(* container's instance store and the Lazy wrappers afterwards.            *)
(***************************************************************************)
Step(act, out, inst, lz) == [act |-> act, out |-> out, inst |-> inst, lz |-> lz]

\* binding.context ? `${cacheKey}::${binding.context}` : cacheKey
FullCacheKey(b, cacheKey) == CacheKey(cacheKey, b.context)

resolveTransient(c, b) == Step("invoke", Ok(NoValue), instances[c], lazies)

\* a resolveSingleton that never looks into the instance store
resolveSingletonUncached(c, b, cacheKey) ==
  Step("invoke", Ok(NoValue), instances[c], lazies)

resolveSingleton(c, b, cacheKey) ==
  IF FullCacheKey(b, cacheKey) \in DOMAIN instances[c]
  THEN Step("return", Ok(instances[c][FullCacheKey(b, cacheKey)]), instances[c], lazies)
  ELSE Step("invoke", Ok(NoValue), instances[c], lazies)

\* a resolveScoped that does not require an active scope
resolveScopedUnchecked(c, b, key) ==
  IF currentScope[c] # 0 /\ key \in DOMAIN scopes[currentScope[c]].instances
  THEN Step("return", Ok(scopes[currentScope[c]].instances[key]), instances[c], lazies)
  ELSE Step("invoke", Ok(NoValue), instances[c], lazies)

resolveScoped(c, b, key) ==
  IF currentScope[c] = 0
  THEN Step("throw", Err("noscope", key), instances[c], lazies)
  ELSE IF key \in DOMAIN scopes[currentScope[c]].instances
  THEN Step("return", Ok(scopes[currentScope[c]].instances[key]), instances[c], lazies)
  ELSE Step("invoke", Ok(NoValue), instances[c], lazies)

\* the Lazy wrapper with the given index, as a value
LazyValue(b, id) == [f |-> b.factory, n |-> id, w |-> TRUE]

\* a resolveLazy that makes a new wrapper at every call
resolveLazyUncached(c, b, cacheKey) ==
  Step("return", Ok(LazyValue(b, Len(lazies) + 1)), instances[c],
       Append(lazies, [c |-> c, b |-> b, initialized |-> FALSE, value |-> NoValue]))

resolveLazy(c, b, cacheKey) ==
  LET fullCacheKey == "lazy::" \o cacheKey
      wrapper == LazyValue(b, Len(lazies) + 1)
  IN IF fullCacheKey \in DOMAIN instances[c]
     THEN Step("return", Ok(instances[c][fullCacheKey]), instances[c], lazies)
     ELSE Step("return", Ok(wrapper),
               IF b.lifecycle = "singleton"
               THEN MapSet(instances[c], fullCacheKey, wrapper) ELSE instances[c],
               Append(lazies, [c |-> c, b |-> b, initialized |-> FALSE, value |-> NoValue]))

\* the body of resolve()'s try block up to the factory call
dispatch(c, b, realKey) ==
  IF b.lazy THEN resolveLazy(c, b, realKey)
  ELSE IF b.lifecycle = "singleton" THEN resolveSingleton(c, b, realKey)
  ELSE IF b.lifecycle = "scoped" THEN resolveScoped(c, b, realKey)
  ELSE resolveTransient(c, b)

\* the key a lazy binding's factory resolves to read the value of the Lazy
\* it gets, as (c) => c.resolve('K').value does; undefined for a factory
\* that resolves nothing
LazyFactoryDep(f) ==
  CASE f = "fLazySelf" -> "K"
    [] OTHER           -> Undef

\* the application reads wrapper.value of the id-th Lazy wrapper (Lazy.ts):
\* the first read runs () => binding.factory(container) and keeps what it
\* returns; a factory that throws leaves the wrapper uninitialized.  This
\* is the read of a wrapper whose factory resolves nothing.
lazyValue(id) ==
  /\ Idle
  /\ id \in 1..Len(lazies)
  /\ LazyFactoryDep(lazies[id].b.factory) = Undef
  /\ Count("value") < MaxReads
  /\ LET lz == lazies[id]
         f == lz.b.factory
         v == Value(f, calls[f] + 1)
     IN IF lz.initialized
        THEN /\ log' = Append(log, [LogEntry("value", lz.c, lz.b.key, Undef,
                                             Ok(lz.value), 0) EXCEPT !.call = id])
             /\ UNCHANGED << calls, lazies >>
        ELSE IF FactoryThrows(f)
        THEN /\ calls' = [calls EXCEPT ![f] = @ + 1]
             /\ log' = Append(log, [LogEntry("value", lz.c, lz.b.key, Undef,
                                             Err("thrown", f), 0) EXCEPT !.call = id])
             /\ UNCHANGED lazies
        ELSE /\ calls' = [calls EXCEPT ![f] = @ + 1]
             /\ lazies' = [lazies EXCEPT ![id].initialized = TRUE, ![id].value = v]
             /\ log' = Append(log, [LogEntry("value", lz.c, lz.b.key, Undef, Ok(v), 0)
                                      EXCEPT !.call = id])
  /\ UNCHANGED << containerVars, scopes, tasks, handlers, env, disposed, frames, exc >>

(***************************************************************************)
(* resolve().                                                              *)
(***************************************************************************)
\* a chain that lists the stack without the repeated key
circularChainOpen(stack, realKey) == Join(stack, " -> ")

\* [...this.resolutionStack, realKey].join(' -> ')
circularChain(stack, realKey) == Join(Append(stack, realKey), " -> ")

\* a call of c.resolve(key, ctx) that has not run yet
Frame(c, key, ctx) ==
  [c |-> c, key |-> key, ctx |-> ctx, realKey |-> "", prev |-> currentContext[c],
   b |-> NoBinding, pc |-> "enter", serial |-> 0, i |-> 0, ret |-> NoValue]

Top == frames[Len(frames)]

\* the call fr ends with outcome out; rest are the frames of its callers.
\* A value goes to the calling factory, which goes on; an error is thrown
\* into it.  The outcome of a top-level call is recorded.
Finish(rest, fr, out) ==
  IF rest = << >>
  THEN /\ frames' = << >>
       /\ exc' = NoExc
       /\ log' = Append(log, LogEntry("resolve", fr.c, fr.key, fr.ctx, out, currentScope[fr.c]))
  ELSE /\ frames' = IF out.kind = "ok"
                    THEN [rest EXCEPT ![Len(rest)].i = @ + 1,
                                      ![Len(rest)].ret = out.val]
                    ELSE rest
       /\ exc' = IF out.kind = "ok" THEN NoExc ELSE [kind |-> out.kind, info |-> out.info]
       /\ log' = log

\* the driver calls c.resolve(key, ctx)
resolve(c, key, ctx) ==
  /\ Idle
  /\ Count("resolve") < MaxResolves
  /\ frames' = << Frame(c, key, ctx) >>
  /\ UNCHANGED << containerVars, scopes, tasks, handlers, env, calls, disposed, lazies,
                  exc, log >>

\* another activity calls c.resolve(key, ctx) while a Scope.dispose() is
\* suspended at an await
resolveConcurrent(c, key, ctx) ==
  /\ frames = << >>
  /\ ~Running
  /\ tasks # << >>
  /\ Count("resolve") < MaxResolves
  /\ frames' = << Frame(c, key, ctx) >>
  /\ UNCHANGED << containerVars, scopes, tasks, handlers, env, calls, disposed, lazies,
                  exc, log >>

\* prevContext is restored when the call leaves the try block
restoreContext(c, prevContext) == [currentContext EXCEPT ![c] = prevContext]

\* the binding of the list whose predicate the lookup of c.resolve() would
\* have to call into the container for, 0 if the selection needs no such
\* call: the cache has the selection, a binding for the context is there, or
\* bindings.find(b => !b.context && (!b.condition || b.condition(this)))
\* stops at a binding before it
FirstCall(c, realKey, context) ==
  LET list == MapGet(bindings[c], realKey, << >>)
      i1 == FindIndex([i \in 1..Len(list) |->
                         list[i].context = context /\ ConditionOk(list[i])])
      i2 == FindIndex([i \in 1..Len(list) |->
                         ~Truthy(list[i].context)
                           /\ (ConditionDep(list[i].condition) # Undef \/ ConditionOk(list[i]))])
  IN IF CacheKey(realKey, context) \in DOMAIN bindingCache[c] \/ i1 # 0 \/ i2 = 0
     THEN 0
     ELSE IF ConditionDep(list[i2].condition) # Undef THEN i2 ELSE 0

\* the call about to run gets past the circularity check and its binding
\* selection calls a predicate that resolves
CallsCondition ==
  /\ frames # << >>
  /\ Top.pc = "enter"
  /\ ~Includes(resolutionStack[Top.c], RealKey(Top.c, Top.key))
  /\ FirstCall(Top.c, RealKey(Top.c, Top.key),
               IF Truthy(Top.ctx) THEN Top.ctx ELSE Top.key) # 0

\* resolve() from its first line into findBinding, up to the call of a
\* predicate that resolves: the context is set, nothing is pushed yet.  The
\* predicate's resolve is the next call, unless the call stack is full.
selectEnter ==
  /\ exc = NoExc
  /\ CallsCondition
  /\ LET fr == Top
         c == fr.c
         realKey == RealKey(c, fr.key)
         context == IF Truthy(fr.ctx) THEN fr.ctx ELSE fr.key
         k == FirstCall(c, realKey, context)
         dep == ConditionDep(bindings[c][realKey][k].condition)
         selecting == [fr EXCEPT !.pc = "select", !.realKey = realKey, !.serial = k]
         waiting == [frames EXCEPT ![Len(frames)] = selecting]
     IN /\ currentContext' = [currentContext EXCEPT ![c] = context]
        /\ IF Len(frames) < MaxDepth
           THEN /\ frames' = Append(waiting, [Frame(c, dep, Undef) EXCEPT !.prev = context])
                /\ exc' = exc
           ELSE /\ frames' = waiting
                /\ exc' = [kind |-> "overflow", info |-> "Maximum call stack size exceeded"]
  /\ UNCHANGED << bindings, instances, aliases, bindingCache, currentScope,
                  resolutionStack, scopes, tasks, handlers, env, calls, disposed,
                  lazies, log >>

\* the predicate's resolve returned: the predicate is true, findBinding
\* returns its binding (a conditional binding is not cached), and resolve()
\* goes on with the push and the lifecycle dispatch
selectResume ==
  /\ frames # << >>
  /\ exc = NoExc
  /\ Top.pc = "select"
  /\ LET fr == Top
         c == fr.c
         rest == Pop(frames)
         b == bindings[c][fr.realKey][fr.serial]
         d == dispatch(c, b, fr.realKey)
     IN IF d.act = "invoke"
        THEN /\ resolutionStack' = [resolutionStack EXCEPT ![c] = Append(@, fr.realKey)]
             /\ calls' = [calls EXCEPT ![b.factory] = @ + 1]
             /\ frames' = [frames EXCEPT ![Len(frames)] =
                             [fr EXCEPT !.b = b, !.pc = "factory",
                                        !.serial = calls[b.factory] + 1, !.i = 1]]
             /\ UNCHANGED << currentContext, instances, lazies, exc, log >>
        ELSE /\ currentContext' = restoreContext(c, fr.prev)
             /\ instances' = [instances EXCEPT ![c] = d.inst]
             /\ lazies' = d.lz
             /\ Finish(rest, fr, d.out)
             /\ UNCHANGED << resolutionStack, calls >>
  /\ UNCHANGED << bindings, aliases, bindingCache, currentScope, scopes, tasks,
                  handlers, env, disposed >>

\* an error thrown by the predicate's resolve leaves findBinding and
\* resolve(), which has not reached its try block: nothing is popped and the
\* context is not restored
selectUnwind ==
  /\ frames # << >>
  /\ exc # NoExc
  /\ Top.pc = "select"
  /\ Finish(Pop(frames), Top, Err(exc.kind, exc.info))
  /\ UNCHANGED << containerVars, scopes, tasks, handlers, env, calls, disposed, lazies >>

\* resolve() from its first line to the point where it returns, throws, or
\* calls the factory of the selected binding
resolveEnter ==
  /\ frames # << >>
  /\ exc = NoExc
  /\ Top.pc = "enter"
  /\ ~CallsCondition
  /\ LET fr == Top
         c == fr.c
         rest == Pop(frames)
         realKey == RealKey(c, fr.key)
         context == IF Truthy(fr.ctx) THEN fr.ctx ELSE fr.key
         prevContext == currentContext[c]
         fb == findBinding(c, fr.key, context)
         d == dispatch(c, fb.b, realKey)
     IN IF Includes(resolutionStack[c], realKey)
        THEN /\ Finish(rest, fr, Err("circular", circularChain(resolutionStack[c], realKey)))
             /\ UNCHANGED << bindingCache, currentContext, resolutionStack,
                             instances, lazies, calls >>
        ELSE IF ~fb.found
        THEN /\ currentContext' = [currentContext EXCEPT ![c] = context]
             /\ bindingCache' = fb.cache
             /\ Finish(rest, fr, Err("missing", realKey))
             /\ UNCHANGED << resolutionStack, instances, lazies, calls >>
        ELSE IF d.act = "invoke"
        THEN /\ currentContext' = [currentContext EXCEPT ![c] = context]
             /\ bindingCache' = fb.cache
             /\ resolutionStack' = [resolutionStack EXCEPT ![c] = Append(@, realKey)]
             /\ calls' = [calls EXCEPT ![fb.b.factory] = @ + 1]
             /\ frames' = [frames EXCEPT ![Len(frames)] =
                             [fr EXCEPT !.realKey = realKey, !.b = fb.b, !.pc = "factory",
                                        !.serial = calls[fb.b.factory] + 1, !.i = 1]]
             /\ UNCHANGED << instances, lazies, exc, log >>
        ELSE /\ currentContext' = restoreContext(c, prevContext)
             /\ bindingCache' = fb.cache
             /\ instances' = [instances EXCEPT ![c] = d.inst]
             /\ lazies' = d.lz
             /\ Finish(rest, fr, d.out)
             /\ UNCHANGED << resolutionStack, calls >>
  /\ UNCHANGED << bindings, aliases, currentScope, scopes, tasks, handlers, env, disposed >>

\* a container that keeps nothing of what its factories return
storeInstanceNever(c, b, realKey, v) ==
  /\ instances' = instances
  /\ scopes' = scopes

\* where the value a factory returned is stored, by lifecycle
storeInstance(c, b, realKey, v) ==
  /\ instances' = IF b.lifecycle = "singleton"
                  THEN [instances EXCEPT ![c] = MapSet(@, FullCacheKey(b, realKey), v)]
                  ELSE instances
  /\ scopes' = IF b.lifecycle = "scoped" /\ currentScope[c] # 0
               THEN [scopes EXCEPT ![currentScope[c]] = scopeSet(@, realKey, v, b.dispose)]
               ELSE scopes

\* a finally block that restores the context and leaves the stack alone
finallyKeepsStack(c, prevContext) ==
  /\ resolutionStack' = resolutionStack
  /\ currentContext' = restoreContext(c, prevContext)

\* the finally block of resolve()
finally(c, prevContext) ==
  /\ resolutionStack' = [resolutionStack EXCEPT ![c] = Pop(@)]
  /\ currentContext' = restoreContext(c, prevContext)

RECURSIVE Owner(_, _)
\* the container, c or an ancestor, whose own list holds the binding of
\* realKey
Owner(c, realKey) ==
  IF MapGet(bindings[c], realKey, << >>) # << >> \/ Parent(c) = Undef
  THEN c
  ELSE Owner(Parent(c), realKey)

\* a factory that would be handed the container its binding is registered on
factoryOwner(fr) == Owner(fr.c, fr.realKey)

\* binding.factory(this): the container handed to the factory is the one
\* resolve() was called on, also for a binding found on an ancestor
factoryThis(fr) == fr.c

\* binding.factory(this): the factory resolves its next dependency, or it
\* ends: it throws, or returns a new object, which is stored and returned
runFactory ==
  /\ frames # << >>
  /\ exc = NoExc
  /\ Top.pc = "factory"
  /\ ~IsProxy(Top.b.factory)
  /\ LET fr == Top
         c == fr.c
         deps == FactoryDeps(fr.b.factory)
         v == Value(fr.b.factory, fr.serial)
     IN IF fr.i <= Len(deps)
        THEN /\ frames' = Append(frames, Frame(factoryThis(fr), deps[fr.i].key, deps[fr.i].ctx))
             /\ UNCHANGED << instances, scopes, resolutionStack, currentContext, exc, log >>
        ELSE IF FactoryThrows(fr.b.factory)
        THEN /\ finally(c, fr.prev)
             /\ Finish(Pop(frames), fr, Err("thrown", fr.b.factory))
             /\ UNCHANGED << instances, scopes >>
        ELSE /\ storeInstance(c, fr.b, fr.realKey, v)
             /\ finally(c, fr.prev)
             /\ Finish(Pop(frames), fr, Ok(v))
  /\ UNCHANGED << bindings, aliases, bindingCache, currentScope, tasks, handlers, env,
                  calls, disposed, lazies >>

\* an error thrown by a nested call leaves the calling factory and passes
\* through the finally block of the resolve() that called the factory; a
\* call that is still selecting its binding has not entered the try block
unwind ==
  /\ frames # << >>
  /\ exc # NoExc
  /\ Top.pc \notin {"select", "value"}
  /\ finally(Top.c, Top.prev)
  /\ Finish(Pop(frames), Top, Err(exc.kind, exc.info))
  /\ UNCHANGED << bindings, instances, aliases, bindingCache, currentScope,
                  scopes, tasks, handlers, env, calls, disposed, lazies >>

(***************************************************************************)
(* Composition.                                                            *)
(***************************************************************************)
RECURSIVE keys(_)
\* [...new Set([...ownKeys, ...parentKeys])], as a set
keys(c) ==
  DOMAIN bindings[c] \cup (IF Parent(c) # Undef THEN keys(Parent(c)) ELSE {})

\* a compose() that moves the inputs' bindings into the new container
composeByMoving ==
  /\ Idle
  /\ Count("compose") = 0
  /\ LET list == ComposedContainers("composed")
         allKeys == UNION {keys(list[i]) : i \in 1..Len(list)}
         proxy(key) == Binding(key, ProxyFactory(key), "transient", Undef, Undef,
                               FALSE, Undef)
     IN bindings' = [c \in Containers |->
                       IF c = "composed" THEN [key \in allKeys |-> << proxy(key) >>]
                       ELSE IF Includes(list, c) THEN EmptyMap
                       ELSE bindings[c]]
  /\ bindingCache' = clearBindingCache("composed")
  /\ log' = Append(log, LogEntry("compose", "composed", Undef, Undef, Ok(NoValue), 0))
  /\ UNCHANGED << instances, aliases, currentContext, currentScope,
                  resolutionStack, scopes, tasks, handlers, env, calls, disposed,
                  lazies, frames, exc >>

\* Container.compose([root, other]): a proxy is bound for every key the
\* input containers have at this moment
compose ==
  /\ Idle
  /\ Count("compose") = 0
  /\ LET list == ComposedContainers("composed")
         allKeys == UNION {keys(list[i]) : i \in 1..Len(list)}
         proxy(key) == Binding(key, ProxyFactory(key), "transient", Undef, Undef,
                               FALSE, Undef)
     IN bindings' = [bindings EXCEPT !["composed"] =
                       [key \in allKeys |-> << proxy(key) >>]]
  /\ bindingCache' = clearBindingCache("composed")
  /\ log' = Append(log, LogEntry("compose", "composed", Undef, Undef, Ok(NoValue), 0))
  /\ UNCHANGED << instances, aliases, currentContext, currentScope,
                  resolutionStack, scopes, tasks, handlers, env, calls, disposed,
                  lazies, frames, exc >>

\* a search that takes the last composed container that has the key
resolveFromCompositionLast(c, key) ==
  LET list == ComposedContainers(c)
      hits == {i \in 1..Len(list) : findBinding(list[i], key, Undef).found}
  IN IF hits = {} THEN Undef
     ELSE list[CHOOSE i \in hits : \A j \in hits : j <= i]

\* the loop of resolveFromComposition: the first composed container for
\* which has(key) is true, or undefined
resolveFromComposition(c, key) ==
  LET list == ComposedContainers(c)
      idx == FindIndex([i \in 1..Len(list) |-> findBinding(list[i], key, Undef).found])
  IN IF idx = 0 THEN Undef ELSE list[idx]

\* the proxy factory: it calls resolve(key) on the container the search
\* gives and returns what that call returns, or it throws
runProxy ==
  /\ frames # << >>
  /\ exc = NoExc
  /\ Top.pc = "factory"
  /\ IsProxy(Top.b.factory)
  /\ LET fr == Top
         key == fr.b.key
         target == resolveFromComposition(fr.c, key)
     IN IF fr.i = 1 /\ target # Undef
        THEN /\ bindingCache' = findBinding(target, key, Undef).cache
             /\ frames' = Append(frames, Frame(target, key, Undef))
             /\ UNCHANGED << resolutionStack, currentContext, exc, log >>
        ELSE IF fr.i = 1
        THEN /\ finally(fr.c, fr.prev)
             /\ Finish(Pop(frames), fr, Err("missing", key))
             /\ UNCHANGED bindingCache
        ELSE /\ finally(fr.c, fr.prev)
             /\ Finish(Pop(frames), fr, Ok(fr.ret))
             /\ UNCHANGED bindingCache
  /\ UNCHANGED << bindings, instances, aliases, currentScope, scopes, tasks, handlers,
                  env, calls, disposed, lazies >>

(***************************************************************************)
(* withScope().  A callback is user code: a list of instructions, run      *)
(* synchronously from one await to the next.                               *)
(***************************************************************************)
Instr(op, key) == [op |-> op, key |-> key]

\* the callbacks handed to withScope(): one that returns a value, an async
\* one that fulfils, one that throws synchronously, an async one that rejects
Callbacks == {"returns", "fulfils", "throws", "rejects"}

Callback(name) ==
  CASE name = "returns" ->
         [async |-> FALSE,
          prog |-> << Instr("resolve", "S"), Instr("return", Undef) >>]
    [] name = "fulfils" ->
         [async |-> TRUE,
          prog |-> << Instr("resolve", "S"), Instr("await", Undef),
                      Instr("resolve", "S"), Instr("return", Undef) >>]
    [] name = "throws" ->
         [async |-> FALSE,
          prog |-> << Instr("resolve", "S"), Instr("throw", Undef) >>]
    [] name = "rejects" ->
         [async |-> TRUE,
          prog |-> << Instr("await", Undef), Instr("resolve", "S"),
                      Instr("throw", Undef) >>]

\* const scope = this.createScope(); try { return await callback(scope) ...:
\* the handler h calls c.withScope(cb); the callback is about to run
withScope(c, h, cb) ==
  /\ frames = << >>
  /\ ~Running
  /\ handlers[h].state = "idle"
  /\ scopes' = Append(scopes, NewScope)
  /\ currentScope' = [currentScope EXCEPT ![c] = Len(scopes) + 1]
  /\ log' = Append(log, LogEntry("createScope", c, Undef, Undef, Ok(NoValue), Len(scopes) + 1))
  /\ handlers' = [handlers EXCEPT ![h] =
                    [NoHandler EXCEPT !.state = "run", !.c = c, !.cb = cb,
                                      !.pc = 1, !.s = Len(scopes) + 1]]
  /\ UNCHANGED << bindings, instances, aliases, bindingCache, currentContext,
                  resolutionStack, tasks, env, calls, disposed, lazies,
                  frames, exc >>

\* the callback of handler h runs its next instruction.  What a resolve
\* returned is kept; an error it threw is thrown by the callback.  A throw
\* of a callback that is not async reaches the finally block at once.
handlerStep(h) ==
  /\ frames = << >>
  /\ handlers[h].state = "run"
  /\ LET hd == handlers[h]
         cb == Callback(hd.cb)
         instr == cb.prog[hd.pc]
         resolved == hd.pc > 1 /\ cb.prog[hd.pc - 1].op = "resolve"
         last == log[Len(log)]
         failed == resolved /\ last.kind # "ok"
         got == IF resolved /\ ~failed THEN Append(hd.got, last.val) ELSE hd.got
         error == IF failed THEN [kind |-> last.kind, info |-> last.info]
                  ELSE [kind |-> "thrown", info |-> "Test error"]
     IN IF ~failed /\ instr.op = "resolve"
        THEN /\ frames' = << Frame(hd.c, instr.key, Undef) >>
             /\ handlers' = [handlers EXCEPT ![h].pc = @ + 1, ![h].got = got]
             /\ UNCHANGED << scopes, tasks, disposed, log >>
        ELSE IF ~failed /\ instr.op = "await"
        THEN /\ handlers' = [handlers EXCEPT ![h].pc = @ + 1, ![h].got = got,
                                              ![h].state = "wait"]
             /\ UNCHANGED << scopes, tasks, disposed, log, frames >>
        ELSE IF ~failed /\ instr.op = "return"
        THEN /\ handlers' = [handlers EXCEPT ![h].got = got, ![h].state = "returned",
                                              ![h].out = [kind |-> "ok", info |-> "success"]]
             /\ UNCHANGED << scopes, tasks, disposed, log, frames >>
        ELSE IF cb.async
        THEN /\ handlers' = [handlers EXCEPT ![h].got = got, ![h].state = "returned",
                                              ![h].out = error]
             /\ UNCHANGED << scopes, tasks, disposed, log, frames >>
        ELSE /\ scopeDispose(hd.s)
             /\ handlers' = [handlers EXCEPT ![h].got = got, ![h].state = "disposing",
                                              ![h].out = error,
                                              ![h].call = Count("dispose") + 1]
             /\ UNCHANGED frames
  /\ UNCHANGED << containerVars, env, calls, lazies, exc >>

\* the promise the callback awaits is settled: the callback goes on
handlerResume(h) ==
  /\ frames = << >>
  /\ ~Running
  /\ handlers[h].state = "wait"
  /\ handlers' = [handlers EXCEPT ![h].state = "run"]
  /\ UNCHANGED << containerVars, scopes, tasks, env, calls, disposed, lazies,
                  frames, exc, log >>

\* finally { await scope.dispose() }, after `await callback(scope)` settled
handlerFinally(h) ==
  /\ frames = << >>
  /\ ~Running
  /\ handlers[h].state = "returned"
  /\ scopeDispose(handlers[h].s)
  /\ handlers' = [handlers EXCEPT ![h].state = "disposing",
                                   ![h].call = Count("dispose") + 1]
  /\ UNCHANGED << containerVars, env, calls, lazies, frames, exc >>

\* scope.dispose() has completed: the promise withScope() returned settles
\* with what the callback returned or threw
handlerSettle(h) ==
  /\ frames = << >>
  /\ ~Running
  /\ handlers[h].state = "disposing"
  /\ \A k \in 1..Len(tasks) : tasks[k].call # handlers[h].call
  /\ handlers' = [handlers EXCEPT ![h].state = "settled"]
  /\ log' = Append(log, LogEntry("withScope", handlers[h].c, h, Undef,
                                  Err(handlers[h].out.kind, handlers[h].out.info),
                                  handlers[h].s))
  /\ UNCHANGED << containerVars, scopes, tasks, env, calls, disposed, lazies,
                  frames, exc >>

(***************************************************************************)
(* Container.dispose().                                                    *)
(***************************************************************************)
\* the handler h calls c.dispose(): with an active scope the call runs the
\* scope's dispose() up to its first await and is suspended at
\* `await this.currentScope.dispose()`; with none it resets the container
\* and its promise is fulfilled
containerDispose(c, h) ==
  /\ Idle
  /\ handlers[h].state = "idle"
  /\ IF currentScope[c] # 0
     THEN /\ scopeDispose(currentScope[c])
          /\ handlers' = [handlers EXCEPT ![h] =
                            [NoHandler EXCEPT !.state = "awaitScope", !.c = c,
                                              !.s = currentScope[c],
                                              !.call = Count("dispose") + 1]]
          /\ UNCHANGED containerVars
     ELSE /\ clearContainer(c)
          /\ handlers' = [handlers EXCEPT ![h] =
                            [NoHandler EXCEPT !.state = "settled", !.c = c]]
          /\ log' = Append(log, LogEntry("containerDispose", c, h, Undef, Ok(NoValue), 0))
          /\ UNCHANGED << scopes, tasks, disposed >>
  /\ UNCHANGED << env, calls, lazies, frames, exc >>

\* the scope's dispose() has settled: fulfilled, Container.dispose() goes on
\* to this.reset() and is fulfilled; rejected, the error leaves
\* Container.dispose() at the await and its promise is rejected with it
containerDisposeResume(h) ==
  /\ frames = << >>
  /\ ~Running
  /\ handlers[h].state = "awaitScope"
  /\ \A k \in 1..Len(tasks) : tasks[k].call # handlers[h].call
  /\ LET hd == handlers[h]
         done == CHOOSE i \in 1..Len(log) :
                   log[i].op = "disposed" /\ log[i].call = hd.call
         out == IF log[done].kind = "ok" THEN Ok(NoValue)
                ELSE Err(log[done].kind, log[done].info)
     IN /\ IF out.kind = "ok" THEN clearContainer(hd.c) ELSE UNCHANGED containerVars
        /\ log' = Append(log, [LogEntry("containerDispose", hd.c, h, Undef, out, hd.s)
                                 EXCEPT !.call = hd.call])
  /\ handlers' = [handlers EXCEPT ![h].state = "settled"]
  /\ UNCHANGED << scopes, tasks, env, calls, disposed, lazies, frames, exc >>

(***************************************************************************)
(* A container with one singleton and an alias for it.                     *)
(***************************************************************************)
\* the log entries before entry i that satisfy P
Before(i, P(_)) == \E j \in 1..(i - 1) : P(log[j])

IsResolve(e, c, key) == e.op = "resolve" /\ e.c = c /\ e.key = key

IsRegistration(e, op, c, key) == e.op = op /\ e.c = c /\ e.key = key

NextSingleton ==
  \/ /\ "K" \notin DOMAIN bindings["root"]
     /\ singleton("root", "K", "fK", Undef)
  \/ /\ "A" \notin DOMAIN aliases["root"]
     /\ alias("root", "A", "K")
  \/ \E key \in {"K", "A"}, ctx \in {Undef, "X"} : resolve("root", key, ctx)
  \/ resolveEnter
  \/ runFactory

SpecSingleton == Init /\ [][NextSingleton]_vars

\* entry i is a resolve of the singleton K, by its key or by its alias A,
\* made after the registrations it needs
ResolvesK(i) ==
  LET SingletonK(e) == IsRegistration(e, "singleton", "root", "K")
      AliasA(e) == IsRegistration(e, "alias", "root", "A")
  IN /\ Before(i, SingletonK)
     /\ \/ IsResolve(log[i], "root", "K")
        \/ IsResolve(log[i], "root", "A") /\ Before(i, AliasA)

\* C1: every resolve of a singleton key (with or without a context, by the
\* key or by its alias) returns the one instance, and the factory has been
\* invoked exactly once however many resolves were made
C1_SingletonOnce ==
  /\ calls["fK"] <= 1
  /\ \A i \in 1..Len(log) :
       ResolvesK(i) => /\ log[i].kind = "ok"
                       /\ log[i].val = Value("fK", 1)
                       /\ calls["fK"] = 1

\* three resolves of the singleton were made: by alias, by key, with a context
C1_Witness ==
  \E i, j, k \in 1..Len(log) :
    /\ i < j /\ j < k
    /\ ResolvesK(i) /\ ResolvesK(j) /\ ResolvesK(k)
    /\ log[i].key = "A" /\ log[j].key = "K" /\ log[k].ctx = "X"

\* C8: with alias(A, K), a resolve by the alias and a resolve by the key give
\* the same instance when K is bound as a singleton, and both fail with a
\* missing-binding error naming K while K is unbound
C8_AliasLaw ==
  LET SingletonK(e) == IsRegistration(e, "singleton", "root", "K")
      AliasA(e) == IsRegistration(e, "alias", "root", "A")
      ByAlias(i) == IsResolve(log[i], "root", "A") /\ Before(i, AliasA)
      ByKey(i) == IsResolve(log[i], "root", "K")
  IN /\ \A i, j \in 1..Len(log) :
          ByAlias(i) /\ ByKey(j) /\ Before(i, SingletonK) /\ Before(j, SingletonK)
            => log[i].kind = "ok" /\ log[j].kind = "ok" /\ log[i].val = log[j].val
     /\ \A i \in 1..Len(log) :
          (ByAlias(i) \/ ByKey(i)) /\ ~Before(i, SingletonK)
            => log[i].kind = "missing" /\ log[i].info = "K"

\* the alias was resolved while K was unbound, and again, before the key
\* itself, after K was bound
C8_Witness ==
  LET SingletonK(e) == IsRegistration(e, "singleton", "root", "K")
      AliasA(e) == IsRegistration(e, "alias", "root", "A")
  IN \E i, j, k \in 1..Len(log) :
       /\ i < j /\ j < k
       /\ IsResolve(log[i], "root", "A") /\ Before(i, AliasA) /\ ~Before(i, SingletonK)
       /\ IsResolve(log[j], "root", "A") /\ Before(j, SingletonK)
       /\ IsResolve(log[k], "root", "K")

(***************************************************************************)
(* A container with one transient binding.                                 *)
(***************************************************************************)
NextTransient ==
  \/ /\ "T" \notin DOMAIN bindings["root"]
     /\ bind("root", "T", "fT", Undef)
  \/ \E ctx \in {Undef, "X"} : resolve("root", "T", ctx)
  \/ resolveEnter
  \/ runFactory

SpecTransient == Init /\ [][NextTransient]_vars

\* entry i is a resolve of T made after T was bound
ResolvesT(i) ==
  LET BindT(e) == IsRegistration(e, "bind", "root", "T")
  IN IsResolve(log[i], "root", "T") /\ Before(i, BindT)

\* C2: N resolves of a transient key have invoked the factory N times, each
\* resolve returns the object its own invocation made, and no two resolves
\* return the same object
C2_TransientFresh ==
  LET done == {i \in 1..Len(log) : ResolvesT(i)}
  IN /\ frames = << >> => calls["fT"] = Cardinality(done)
     /\ \A i \in done : log[i].kind = "ok" /\ log[i].val.f = "fT"
     /\ \A i, j \in done : i # j => log[i].val # log[j].val

\* three resolves of the transient key were completed
C2_Witness ==
  Cardinality({i \in 1..Len(log) : ResolvesT(i)}) >= 3

(***************************************************************************)
(* Scoped bindings: a scoped key S with a dispose callback, and scopes     *)
(* that are created and disposed.                                          *)
(***************************************************************************)
NextScoped ==
  \/ /\ "S" \notin DOMAIN bindings["root"]
     /\ scoped("root", "S", "fS", "close")
  \/ createScope("root")
  \/ \E s \in 1..Len(scopes) : dispose(s)
  \/ \E k \in 1..Len(tasks) : disposeResume(k)
  \/ resolve("root", "S", Undef)
  \/ resolveEnter
  \/ runFactory

SpecScoped == Init /\ [][NextScoped]_vars

\* entry i is a top-level resolve of the scoped key that returned a value
ScopedOk(i) == log[i].op = "resolve" /\ log[i].key = "S" /\ log[i].kind = "ok"

\* scope s was disposed between the entries i and j
DisposedBetween(s, i, j) ==
  \E k \in (i + 1)..(j - 1) : log[k].op = "dispose" /\ log[k].scope = s

\* C3: two resolves of a scoped key in one scope, between its creation and
\* its disposal, return the same instance (made by one factory invocation);
\* a resolve in another scope, or after the disposal, returns a new instance
C3_ScopedPerScope ==
  \A i, j \in 1..Len(log) :
    i < j /\ ScopedOk(i) /\ ScopedOk(j)
      => /\ log[j].val.f = "fS" /\ log[j].val.n <= calls["fS"]
         /\ IF log[i].scope = log[j].scope /\ ~DisposedBetween(log[i].scope, i, j)
            THEN log[i].val = log[j].val
            ELSE log[i].val # log[j].val

\* two resolves in one scope, its disposal, a new scope, a third resolve
C3_Witness ==
  \E i, j, k \in 1..Len(log) :
    /\ i < j /\ j < k
    /\ ScopedOk(i) /\ ScopedOk(j) /\ ScopedOk(k)
    /\ log[i].c = log[k].c
    /\ log[i].scope = log[j].scope
    /\ DisposedBetween(log[i].scope, j, k)
    /\ log[k].scope # log[i].scope

(***************************************************************************)
(* Scoped bindings without a scope: S is scoped on the root, the factory   *)
(* of N resolves S, the root may have a scope and the child never has.     *)
(***************************************************************************)
NextNoScope ==
  \/ /\ "S" \notin DOMAIN bindings["root"]
     /\ scoped("root", "S", "fS", "close")
  \/ /\ "N" \notin DOMAIN bindings["root"]
     /\ bind("root", "N", "fN", Undef)
  \/ createScope("root")
  \/ \E c \in {"root", "child"}, key \in {"S", "N"} : resolve(c, key, Undef)
  \/ resolveEnter
  \/ runFactory
  \/ unwind

SpecNoScope == Init /\ [][NextNoScope]_vars

\* the call about to run selects a scoped binding on a container that has
\* no scope attached
ScopedWithoutScope ==
  /\ frames # << >>
  /\ exc = NoExc
  /\ Top.pc = "enter"
  /\ ~Includes(resolutionStack[Top.c], RealKey(Top.c, Top.key))
  /\ LET fb == findBinding(Top.c, Top.key, IF Truthy(Top.ctx) THEN Top.ctx ELSE Top.key)
     IN fb.found /\ fb.b.lifecycle = "scoped" /\ ~fb.b.lazy
  /\ currentScope[Top.c] = 0

\* the step ends the innermost call with the error kind/info
Throws(kind, info) ==
  IF Len(frames) = 1
  THEN /\ frames' = << >>
       /\ Len(log') = Len(log) + 1
       /\ log'[Len(log')].kind = kind
       /\ log'[Len(log')].info = info
  ELSE /\ frames' = Pop(frames)
       /\ exc' = [kind |-> kind, info |-> info]

\* C4: resolving a scoped binding on a container with no scope attached
\* fails with a no-active-scope error naming the real key; no factory is
\* invoked, nothing is stored, and the resolution stack is as before the call
C4_NoActiveScope ==
  [][ScopedWithoutScope
       => /\ Throws("noscope", RealKey(Top.c, Top.key))
          /\ calls' = calls
          /\ resolutionStack' = resolutionStack
          /\ scopes' = scopes
          /\ instances' = instances]_vars

\* the child, which has no scope, failed to resolve S while its parent had
\* an active scope; and S failed inside the factory of N
C4_Witness ==
  /\ \E i, j \in 1..Len(log) :
       /\ j < i
       /\ log[j].op = "createScope" /\ log[j].c = "root"
       /\ IsResolve(log[i], "child", "S") /\ log[i].kind = "noscope"
       /\ log[i].scope = 0
  /\ \E i \in 1..Len(log) : log[i].op = "resolve" /\ log[i].key = "N" /\ log[i].kind = "noscope"

(***************************************************************************)
(* Dependency chains: the factory of A resolves B; the factory of B        *)
(* resolves A or C; the factory of C resolves A or nothing.                *)
(***************************************************************************)
\* before entry i, key was registered by operation op with factory f
Bound(i, op, key, f) ==
  \E j \in 1..(i - 1) : log[j].op = op /\ log[j].key = key /\ log[j].info = f

Unbound(key) == key \notin DOMAIN bindings["root"]

NextCycle ==
  \/ Unbound("A") /\ bind("root", "A", "fB", Undef)
  \/ Unbound("B") /\ \E f \in {"fA", "fC"} : bind("root", "B", f, Undef)
  \/ Unbound("C") /\ \E f \in {"fA", "fT"} : bind("root", "C", f, Undef)
  \/ \E key \in {"A", "B", "C"} : resolve("root", key, Undef)
  \/ resolveEnter
  \/ runFactory
  \/ unwind

SpecCycle == Init /\ [][NextCycle]_vars

NextErrors ==
  \/ Unbound("A") /\ bind("root", "A", "fB", Undef)
  \/ Unbound("B") /\ \E f \in {"fA", "fThrow", "fT"} : bind("root", "B", f, Undef)
  \/ Unbound("B") /\ scoped("root", "B", "fS", Undef)
  \/ \E key \in {"A", "B"}, ctx \in {Undef, "X"} : resolve("root", key, ctx)
  \/ resolveEnter
  \/ runFactory
  \/ unwind

SpecErrors == Init /\ [][NextErrors]_vars

\* C6: whenever no resolve is in progress the resolution stack is empty,
\* whatever the outcomes of the resolves made so far; and a resolve is
\* reported circular only where the factories do form a cycle
C6_StackEmptyBetweenCalls ==
  /\ frames = << >> => \A c \in Containers : resolutionStack[c] = << >>
  /\ \A i \in 1..Len(log) :
       log[i].op = "resolve" /\ log[i].kind = "circular"
         => Bound(i, "bind", "A", "fB") /\ Bound(i, "bind", "B", "fA")

\* a resolve that failed below the top-level call (in a factory, by a cycle,
\* or for want of a scope) was followed by another completed resolve
C6_Witness ==
  \E i, j \in 1..Len(log) :
    /\ i < j
    /\ IsResolve(log[i], "root", "A")
    /\ log[i].kind \in {"thrown", "circular", "noscope"}
    /\ log[j].op = "resolve"
    /\ frames = << >>

\* C7: every call of resolve, top-level or nested, leaves currentContext as
\* it was when the call was made, whether it returns or throws
C7_ContextRestored ==
  [][Len(frames') < Len(frames) => currentContext'[Top.c] = Top.prev]_vars

(***************************************************************************)
(* Contextual bindings: a default binding for K and a binding for K in     *)
(* the context X, registered in either order.                              *)
(***************************************************************************)
\* no context-free binding is registered for key yet
NoDefault(key) ==
  \A i \in 1..Len(MapGet(bindings["root"], key, << >>)) :
    Truthy(bindings["root"][key][i].context)

\* no binding for key in the context is registered yet
NoContextual(key, context) ==
  \A i \in 1..Len(MapGet(bindings["root"], key, << >>)) :
    bindings["root"][key][i].context # context

NextContext ==
  \/ NoDefault("K") /\ bind("root", "K", "fDefault", Undef)
  \/ NoDefault("K") /\ singleton("root", "K", "fDefault", Undef)
  \/ NoContextual("K", "X") /\ when("root", "X", "K", "fX")
  \/ \E ctx \in {Undef, "X", "Y"} : resolve("root", "K", ctx)
  \/ resolveEnter
  \/ runFactory

SpecContext == Init /\ [][NextContext]_vars

\* entry i is a resolve of K made after the default binding and the
\* contextual binding were both registered
ResolvesContextual(i) ==
  /\ IsResolve(log[i], "root", "K")
  /\ Bound(i, "bind", "K", "fDefault") \/ Bound(i, "singleton", "K", "fDefault")
  /\ Bound(i, "when", "K", "fX")

\* C9: with a default binding and a when(X).needs(K) binding, in either
\* registration order, resolve(K, X) returns the contextual binding's value,
\* and resolve(K) and resolve(K, Y) return the default's
C9_ContextualPriority ==
  \A i \in 1..Len(log) :
    ResolvesContextual(i)
      => /\ log[i].kind = "ok"
         /\ log[i].val.f = IF log[i].ctx = "X" THEN "fX" ELSE "fDefault"

\* the contextual binding was registered first, and K was then resolved with
\* no context, in the context X and in the context Y
C9_Witness ==
  /\ \E i, j \in 1..Len(log) :
       i < j /\ log[i].op = "when" /\ log[j].op \in {"bind", "singleton"}
  /\ \A ctx \in {Undef, "X", "Y"} :
       \E i \in 1..Len(log) : ResolvesContextual(i) /\ log[i].ctx = ctx

(***************************************************************************)
(* Conditional bindings: two transient bindings for K with the mutually    *)
(* exclusive conditions env = development and env = production.            *)
(***************************************************************************)
\* no binding with the condition is registered for key yet
NoConditional(key, cond) ==
  \A i \in 1..Len(MapGet(bindings["root"], key, << >>)) :
    bindings["root"][key][i].condition # cond

NextCondition ==
  \/ NoConditional("K", "isDev") /\ bind("root", "K", "fDev", "isDev")
  \/ NoConditional("K", "isProd") /\ bind("root", "K", "fProd", "isProd")
  \/ \E e \in EnvValues : setEnv(e)
  \/ \E ctx \in {Undef, "X"} : resolve("root", "K", ctx)
  \/ resolveEnter
  \/ runFactory

SpecCondition == Init /\ [][NextCondition]_vars

\* the external state when entry i was logged
EnvAt(i) ==
  LET changes == {j \in 1..(i - 1) : log[j].op = "env"}
  IN IF changes = {} THEN "development"
     ELSE log[CHOOSE j \in changes : \A k \in changes : k <= j].key

\* entry i is a resolve of K made after both conditional bindings were
\* registered
ResolvesConditional(i) ==
  /\ IsResolve(log[i], "root", "K")
  /\ Bound(i, "bind", "K", "fDev")
  /\ Bound(i, "bind", "K", "fProd")

\* C10: every resolve returns a new object made by the factory of the
\* binding whose condition holds in the external state at that call
C10_ConditionalSelection ==
  /\ \A i \in 1..Len(log) :
       ResolvesConditional(i)
         => /\ log[i].kind = "ok"
            /\ EnvAt(i) = "development" => log[i].val.f = "fDev"
            /\ EnvAt(i) = "production" => log[i].val.f = "fProd"
  /\ \A i, j \in 1..Len(log) :
       i < j /\ ResolvesConditional(i) /\ ResolvesConditional(j)
         => log[i].val # log[j].val

\* K was resolved under development, then under production, then under
\* development again
C10_Witness ==
  \E i, j, k \in 1..Len(log) :
    /\ i < j /\ j < k
    /\ ResolvesConditional(i) /\ ResolvesConditional(j) /\ ResolvesConditional(k)
    /\ EnvAt(i) = "development" /\ EnvAt(j) = "production" /\ EnvAt(k) = "development"

(***************************************************************************)
(* Conditional singletons: two singleton bindings for K with the mutually  *)
(* exclusive conditions env = development and env = production.            *)
(***************************************************************************)
NextConditionSingleton ==
  \/ NoConditional("K", "isDev") /\ singleton("root", "K", "fDev", "isDev")
  \/ NoConditional("K", "isProd") /\ singleton("root", "K", "fProd", "isProd")
  \/ \E e \in EnvValues : setEnv(e)
  \/ \E ctx \in {Undef, "X"} : resolve("root", "K", ctx)
  \/ resolveEnter
  \/ runFactory

SpecConditionSingleton == Init /\ [][NextConditionSingleton]_vars

\* entry i is a resolve of K, and every resolve up to it was made after both
\* conditional singletons were registered
ResolvesConditionalSingleton(i) ==
  /\ IsResolve(log[i], "root", "K")
  /\ \A j \in 1..i :
       log[j].op = "resolve"
         => Bound(j, "singleton", "K", "fDev") /\ Bound(j, "singleton", "K", "fProd")

\* C11: with two conditional singletons for K, every resolve returns the
\* value of the binding whose condition holds in the external state at that
\* call; the instance of the other binding is never returned
C11_ConditionalSingleton ==
  \A i \in 1..Len(log) :
    ResolvesConditionalSingleton(i)
      => /\ log[i].kind = "ok"
         /\ EnvAt(i) = "development" => log[i].val.f = "fDev"
         /\ EnvAt(i) = "production" => log[i].val.f = "fProd"

(***************************************************************************)
(* The hierarchy: the root binds K as a singleton, the child may bind K    *)
(* too (as a singleton or a transient), and K is resolved through the      *)
(* root, the child and the grandchild.                                     *)
(***************************************************************************)
\* container c has no binding of its own for key
UnboundOn(c, key) == key \notin DOMAIN bindings[c]

NextHierarchy ==
  \/ UnboundOn("root", "K") /\ singleton("root", "K", "fK", Undef)
  \/ UnboundOn("child", "K") /\ singleton("child", "K", "fX", Undef)
  \/ UnboundOn("child", "K") /\ bind("child", "K", "fX", Undef)
  \/ \E c \in {"root", "child", "grandchild"} : resolve(c, "K", Undef)
  \/ resolveEnter
  \/ runFactory

SpecHierarchy == Init /\ [][NextHierarchy]_vars

\* before entry i, container c registered a binding of its own for key
BoundOn(i, c, key) ==
  \E j \in 1..(i - 1) :
    log[j].c = c /\ log[j].key = key /\ log[j].op \in {"bind", "singleton"}

\* C12: once the root and the child have both bound K, a resolve through the
\* child (or through the grandchild, which binds nothing) returns the value
\* of the child's binding and a resolve through the root the value of the
\* root's; while only the root has bound K, every container resolves K to
\* the root's binding
C12_HierarchyOverride ==
  \A i \in 1..Len(log) :
    log[i].op = "resolve" /\ log[i].key = "K" /\ BoundOn(i, "root", "K")
      => /\ log[i].kind = "ok"
         /\ log[i].val.f = IF log[i].c # "root" /\ BoundOn(i, "child", "K")
                           THEN "fX" ELSE "fK"

\* C13: while only the root binds the singleton K, every resolve of K, through
\* whichever container, returns the one instance of one factory invocation
C13_SingletonSharedByHierarchy ==
  \A i \in 1..Len(log) :
    /\ log[i].op = "resolve" /\ log[i].key = "K"
    /\ BoundOn(i, "root", "K")
    /\ log[i].c = "root" \/ ~BoundOn(i, "child", "K")
    => /\ log[i].kind = "ok"
       /\ log[i].val = Value("fK", 1)
       /\ calls["fK"] = 1

(***************************************************************************)
(* Composition: the root binds K as a singleton, the other container binds *)
(* K and T as transients, and composed == Container.compose([root, other]) *)
(* is made at some moment.                                                 *)
(***************************************************************************)
NextCompose ==
  \/ UnboundOn("root", "K") /\ singleton("root", "K", "fK", Undef)
  \/ UnboundOn("other", "K") /\ bind("other", "K", "fX", Undef)
  \/ UnboundOn("other", "T") /\ bind("other", "T", "fT", Undef)
  \/ compose
  \/ Count("compose") = 1 /\ \E key \in {"K", "T"} : resolve("composed", key, Undef)
  \/ resolve("root", "K", Undef)
  \/ resolveEnter
  \/ runFactory
  \/ runProxy

SpecCompose == Init /\ [][NextCompose]_vars

\* entry i is a resolve through the composed container of a key for which
\* compose() found a binding in one of its input containers
ResolvesComposed(i) ==
  /\ log[i].op = "resolve" /\ log[i].c = "composed"
  /\ \E j \in 1..(i - 1) :
       /\ log[j].op = "compose"
       /\ BoundOn(j, "root", log[i].key) \/ BoundOn(j, "other", log[i].key)

\* C14: a resolve through compose([root, other]) of a key the root binds
\* returns what root.resolve returns (the root's one singleton instance) and
\* does not invoke the other container's factory for that key; a key bound
\* only in the other container resolves to the other container's value
C14_CompositionFirstWins ==
  LET viaOther == {i \in 1..Len(log) :
                     ResolvesComposed(i) /\ log[i].key = "K" /\ ~BoundOn(i, "root", "K")}
  IN /\ \A i \in 1..Len(log) :
          ResolvesComposed(i)
            => /\ log[i].kind = "ok"
               /\ log[i].val.f = IF BoundOn(i, "root", log[i].key) THEN "fK"
                                 ELSE IF log[i].key = "K" THEN "fX" ELSE "fT"
     /\ \A i, j \in 1..Len(log) :
          /\ ResolvesComposed(i) /\ log[i].key = "K" /\ BoundOn(i, "root", "K")
          /\ IsResolve(log[j], "root", "K") /\ BoundOn(j, "root", "K")
          => log[i].val = log[j].val
     /\ frames = << >> => calls["fX"] = Cardinality(viaOther)

\* with K bound in both containers before compose(), K was resolved through
\* the composed container and then through the root, and T, bound in the
\* other container only, was resolved through the composed container
C14_Witness ==
  \E i, j, k, m \in 1..Len(log) :
    /\ log[m].op = "compose" /\ BoundOn(m, "root", "K") /\ BoundOn(m, "other", "K")
    /\ i < j
    /\ ResolvesComposed(i) /\ log[i].key = "K"
    /\ IsResolve(log[j], "root", "K")
    /\ ResolvesComposed(k) /\ log[k].key = "T"

(***************************************************************************)
(* Composition and contexts: the root binds K with a default and for the   *)
(* context ServiceA, the other container binds K with a default and for    *)
(* the context ServiceB, and the two are composed.                         *)
(***************************************************************************)
\* container c has a binding for key with the given context (Undef: none)
HasBinding(c, key, context) ==
  \E i \in 1..Len(MapGet(bindings[c], key, << >>)) :
    bindings[c][key][i].context = context

NextComposeContext ==
  \/ ~HasBinding("root", "K", Undef) /\ bind("root", "K", "fHostA", Undef)
  \/ /\ ~HasBinding("root", "K", "ServiceA")
     /\ when("root", "ServiceA", "K", "fContextualHostA")
  \/ ~HasBinding("other", "K", Undef) /\ bind("other", "K", "fHostB", Undef)
  \/ /\ ~HasBinding("other", "K", "ServiceB")
     /\ when("other", "ServiceB", "K", "fContextualHostB")
  \/ /\ \A ctx \in {Undef, "ServiceA"} : HasBinding("root", "K", ctx)
     /\ \A ctx \in {Undef, "ServiceB"} : HasBinding("other", "K", ctx)
     /\ compose
  \/ /\ Count("compose") = 1
     /\ \E ctx \in {Undef, "ServiceA", "ServiceB"} : resolve("composed", "K", ctx)
  \/ resolveEnter
  \/ runFactory
  \/ runProxy

SpecComposeContext == Init /\ [][NextComposeContext]_vars

\* C15: through the composed container, resolve(K, ServiceA) returns the
\* root's ServiceA-contextual value, resolve(K, ServiceB) the other
\* container's ServiceB-contextual value, and resolve(K) the root's default
C15_ComposedContextual ==
  \A i \in 1..Len(log) :
    log[i].op = "resolve" /\ log[i].c = "composed" /\ log[i].key = "K"
      => /\ log[i].kind = "ok"
         /\ log[i].val.f = CASE log[i].ctx = "ServiceA" -> "fContextualHostA"
                             [] log[i].ctx = "ServiceB" -> "fContextualHostB"
                             [] OTHER                   -> "fHostA"

(***************************************************************************)
(* Contextual bindings for a consumer: 'cache' is given a RedisCache when  *)
(* UserService needs it and a MemoryCache when AnalyticsService needs it,  *)
(* and the factories of the two services resolve 'cache'.                  *)
(***************************************************************************)
NextConsumer ==
  \/ /\ ~HasBinding("root", "cache", "UserService")
     /\ when("root", "UserService", "cache", "fRedisCache")
  \/ /\ ~HasBinding("root", "cache", "AnalyticsService")
     /\ when("root", "AnalyticsService", "cache", "fMemoryCache")
  \/ /\ UnboundOn("root", "UserService")
     /\ bind("root", "UserService", "fUserService", Undef)
  \/ /\ UnboundOn("root", "AnalyticsService")
     /\ bind("root", "AnalyticsService", "fAnalyticsService", Undef)
  \/ \E key \in {"UserService", "AnalyticsService"} : resolve("root", key, Undef)
  \/ resolveEnter
  \/ runFactory
  \/ unwind

SpecConsumer == Init /\ [][NextConsumer]_vars

\* C16: when the factory of a service has resolved 'cache' without a context
\* argument, what it received was made by the binding registered for that
\* service with when(service).needs('cache')
C16_ContextFollowsConsumer ==
  \A k \in 1..Len(frames) :
    /\ frames[k].pc = "factory" /\ frames[k].i = 2
    /\ frames[k].b.key \in {"UserService", "AnalyticsService"}
    /\ HasBinding("root", "cache", frames[k].b.key)
    => frames[k].ret.f = IF frames[k].b.key = "UserService"
                         THEN "fRedisCache" ELSE "fMemoryCache"

(***************************************************************************)
(* Disposal: one scope and three scoped keys, S1 with a dispose callback,  *)
(* S2 whose objects have a dispose() method, and S3 with neither; keys are *)
(* resolved before, during and after the dispose() calls on the scope.     *)
(***************************************************************************)
NextDispose ==
  \/ UnboundOn("root", "S1") /\ scoped("root", "S1", "fS", "close")
  \/ /\ ~UnboundOn("root", "S1") /\ UnboundOn("root", "S2")
     /\ scoped("root", "S2", "fConn", Undef)
  \/ /\ ~UnboundOn("root", "S2") /\ UnboundOn("root", "S3")
     /\ scoped("root", "S3", "fT", Undef)
  \/ /\ ~UnboundOn("root", "S3") /\ Len(scopes) = 0
     /\ createScope("root")
  \/ Len(scopes) = 1 /\ \E key \in {"S1", "S2", "S3"} : resolve("root", key, Undef)
  \/ \E key \in {"S1", "S2", "S3"} : resolveConcurrent("root", key, Undef)
  \/ dispose(1)
  \/ \E k \in 1..Len(tasks) : disposeResume(k)
  \/ resolveEnter
  \/ runFactory

SpecDispose == Init /\ [][NextDispose]_vars

\* the positions in the record of dispose callbacks at which the call-th
\* dispose() invoked a callback
StartsOf(call) ==
  {p \in 1..Len(disposed) : disposed[p].call = call /\ disposed[p].ev = "start"}

\* the log entry at which a resolve first returned the object v, 0 if none
FirstReturn(v) ==
  LET at == {i \in 1..Len(log) : log[i].op = "resolve" /\ log[i].kind = "ok"
                                   /\ log[i].val = v}
  IN IF at = {} THEN 0 ELSE CHOOSE i \in at : \A j \in at : i <= j

\* the objects queued for disposal in scope s when log entry m was written:
\* those with a callback that a resolve put into s since s was last cleared
QueuedAt(s, m) ==
  {log[i].val : i \in {i \in 1..(m - 1) :
     /\ log[i].op = "resolve" /\ log[i].kind = "ok" /\ log[i].scope = s
     /\ log[i].val.f \in {"fS", "fConn"}
     /\ FirstReturn(log[i].val) = i
     /\ \A j \in (i + 1)..(m - 1) : ~(log[j].op = "disposed" /\ log[j].scope = s)}}

\* C17: a dispose() call invokes no callback twice, invokes the callbacks in
\* the order in which the instances came into the scope, starts a callback
\* only after the promise of the one before is fulfilled, and when the call
\* completes every queued callback has been invoked by it and the scope
\* holds nothing
C17_DisposeInOrder ==
  /\ \A call \in 1..Count("dispose") : \A p, q \in StartsOf(call) :
       p < q => /\ disposed[p].val # disposed[q].val
                /\ FirstReturn(disposed[p].val) > 0
                /\ FirstReturn(disposed[p].val) < FirstReturn(disposed[q].val)
                /\ \E r \in (p + 1)..(q - 1) :
                     disposed[r] = [disposed[p] EXCEPT !.ev = "end"]
  /\ \A m \in 1..Len(log) :
       log[m].op = "disposed"
         => \A v \in QueuedAt(log[m].scope, m) :
              \E p \in StartsOf(log[m].call) :
                disposed[p].val = v /\ disposed[p].s = log[m].scope
  /\ log # << >> /\ log[Len(log)].op = "disposed"
       => scopes[log[Len(log)].scope] = NewScope

\* a dispose() call completed after it invoked two callbacks, the second for
\* an instance that came into the scope while the first was awaited
C17_Witness ==
  \E m \in 1..Len(log) :
    /\ log[m].op = "disposed"
    /\ \E p, q \in StartsOf(log[m].call) :
         /\ p < q
         /\ \E i \in 1..(m - 1) :
              /\ log[i].op = "dispose" /\ log[i].call = log[m].call
              /\ FirstReturn(disposed[q].val) > i

(***************************************************************************)
(* Request handlers: S is scoped with a dispose callback, and each handler *)
(* calls withScope() on the shared container with one of the callbacks.    *)
(***************************************************************************)
NextHandlers ==
  \/ UnboundOn("root", "S") /\ scoped("root", "S", "fS", "close")
  \/ /\ ~UnboundOn("root", "S")
     /\ \E h \in Handlers, cb \in Callbacks : withScope("root", h, cb)
  \/ \E h \in Handlers : handlerStep(h)
  \/ \E h \in Handlers : handlerResume(h)
  \/ \E h \in Handlers : handlerFinally(h)
  \/ \E h \in Handlers : handlerSettle(h)
  \/ \E k \in 1..Len(tasks) : disposeResume(k)
  \/ resolveEnter
  \/ runFactory

SpecHandlers == Init /\ [][NextHandlers]_vars

\* the objects the resolves of handler h's callback returned
Got(h) == {handlers[h].got[i] : i \in 1..Len(handlers[h].got)}

\* what the promise returned by withScope(cb) is to carry
CallbackOutcome(cb) ==
  LET prog == Callback(cb).prog
  IN IF prog[Len(prog)].op = "return" THEN [kind |-> "ok", info |-> "success"]
     ELSE [kind |-> "thrown", info |-> "Test error"]

\* C18: when the promise returned by withScope() has settled, the dispose
\* callback of every instance resolved inside the callback has been invoked
\* and has completed, and the promise carries the callback's result or error
C18_WithScopeDisposes ==
  /\ \A h \in Handlers :
       handlers[h].state = "settled"
         => \A v \in Got(h) :
              \E p \in 1..Len(disposed) : disposed[p].val = v /\ disposed[p].ev = "end"
  /\ \A i \in 1..Len(log) :
       log[i].op = "withScope"
         => /\ log[i].kind = CallbackOutcome(handlers[log[i].key].cb).kind
            /\ log[i].info = CallbackOutcome(handlers[log[i].key].cb).info

\* C19: what a handler resolves is held by the scope its withScope() created
\* until that scope is disposed, is disposed by the dispose() call of that
\* withScope(), and is never received by another handler
C19_ScopeIsolation ==
  /\ \A h \in Handlers :
       handlers[h].state \in {"run", "wait", "returned"}
         => \A v \in Got(h) :
              /\ "S" \in DOMAIN scopes[handlers[h].s].instances
              /\ scopes[handlers[h].s].instances["S"] = v
  /\ \A h \in Handlers :
       handlers[h].state = "settled"
         => \A v \in Got(h) :
              \E p \in StartsOf(handlers[h].call) :
                disposed[p].val = v /\ disposed[p].s = handlers[h].s
  /\ \A h1, h2 \in Handlers : h1 # h2 => Got(h1) \cap Got(h2) = {}

(***************************************************************************)
(* reset(): the root binds the singleton K and has the alias A for it; the *)
(* root and the child may be reset, and the root registered again.         *)
(***************************************************************************)
\* the registrations have been made, or a reset() has undone them
SetUp ==
  \/ Count("reset") > 0
  \/ ~UnboundOn("root", "K") /\ "A" \in DOMAIN aliases["root"]

NextReset ==
  \/ UnboundOn("root", "K") /\ singleton("root", "K", "fK", Undef)
  \/ /\ ~UnboundOn("root", "K") /\ "A" \notin DOMAIN aliases["root"]
     /\ alias("root", "A", "K")
  \/ SetUp /\ \E c \in {"root", "child"} : reset(c)
  \/ SetUp /\ \E key \in {"K", "A"} : resolve("root", key, Undef)
  \/ SetUp /\ \E key \in {"K", "A"} : resolve("child", key, Undef)
  \/ resolveEnter
  \/ runFactory

SpecReset == Init /\ [][NextReset]_vars

\* the last reset() of container c before entry i, 0 if there is none
LastReset(c, i) ==
  LET at == {j \in 1..(i - 1) : log[j].op = "reset" /\ log[j].c = c}
  IN IF at = {} THEN 0 ELSE CHOOSE j \in at : \A k \in at : k <= j

\* at entry i, container c holds a registration op of key made since its
\* last reset()
Registered(c, op, key, i) ==
  \E j \in (LastReset(c, i) + 1)..(i - 1) :
    log[j].op = op /\ log[j].c = c /\ log[j].key = key

\* the original statement of C20: a key that a container resolved before its
\* reset() fails with a missing-binding error on that container afterwards,
\* until something is registered on the container again
C20_ResetForgetsAll ==
  \A i, j \in 1..Len(log) :
    /\ i < LastReset(log[j].c, j)
    /\ log[i].op = "resolve" /\ log[i].kind = "ok"
    /\ log[j].op = "resolve" /\ log[j].c = log[i].c /\ log[j].key = log[i].key
    /\ \A k \in (LastReset(log[j].c, j) + 1)..(j - 1) : log[k].c # log[j].c
    => log[j].kind = "missing"

\* C20, amended: after reset() a container resolves a key exactly when the
\* key is registered on it since the reset or is found through its parent,
\* whose bindings, aliases and instances the reset leaves alone; otherwise
\* the resolve fails with a missing-binding error naming the key; and a
\* singleton resolved after a reset of the resolving container is a new one
C20_ResetForgetsOwn ==
  /\ \A i \in 1..Len(log) :
       log[i].op = "resolve"
         => LET c == log[i].c
                key == log[i].key
                own == IF Registered(c, "alias", key, i) THEN "K" ELSE key
                up == IF Registered("root", "alias", key, i) THEN "K" ELSE key
                found == \/ Registered(c, "singleton", own, i)
                         \/ c = "child" /\ Registered("root", "singleton", up, i)
            IN IF found THEN log[i].kind = "ok"
               ELSE log[i].kind = "missing" /\ log[i].info = own
  /\ \A i, j \in 1..Len(log) :
       /\ i < j
       /\ log[i].op = "resolve" /\ log[i].kind = "ok"
       /\ log[j].op = "resolve" /\ log[j].kind = "ok"
       /\ log[j].c = log[i].c
       /\ i < LastReset(log[j].c, j)
       => log[i].val # log[j].val

\* the root resolved K by its alias and then was reset; afterwards the alias
\* failed on the root, and K, found through the parent before, failed on the
\* child
C20_Witness ==
  \E i, j, k \in 1..Len(log) :
    /\ i < LastReset("root", j) /\ LastReset("root", j) < k
    /\ IsResolve(log[i], "root", "A") /\ log[i].kind = "ok"
    /\ IsResolve(log[j], "root", "A") /\ log[j].kind = "missing"
    /\ IsResolve(log[k], "child", "K") /\ log[k].kind = "missing"

(***************************************************************************)
(* has(): the root binds K and has the alias A for it, the child binds T;  *)
(* then has() is asked for the alias, for the child's key and for a key    *)
(* that contains "::", and K is resolved on the root.                      *)
(***************************************************************************)
NextHas ==
  \/ UnboundOn("root", "K") /\ bind("root", "K", "fK", Undef)
  \/ /\ ~UnboundOn("root", "K") /\ "A" \notin DOMAIN aliases["root"]
     /\ alias("root", "A", "K")
  \/ /\ "A" \in DOMAIN aliases["root"] /\ UnboundOn("child", "T")
     /\ bind("child", "T", "fT", Undef)
  \/ /\ ~UnboundOn("child", "T")
     /\ \E c \in {"root", "child"}, key \in {"A", "T", "K::K"} : has(c, key)
  \/ ~UnboundOn("child", "T") /\ resolve("root", "K", Undef)
  \/ resolveEnter
  \/ runFactory

SpecHas == Init /\ [][NextHas]_vars

\* before entry i, container c registered a binding under key
RegisteredBefore(i, c, key) ==
  \E j \in 1..(i - 1) :
    /\ log[j].c = c /\ log[j].key = key
    /\ log[j].op \in {"bind", "singleton", "scoped", "lazy", "when"}

\* the key that key stands for on container c at entry i: one alias hop
RealKeyAt(i, c, key) ==
  LET hops == {j \in 1..(i - 1) : log[j].op = "alias" /\ log[j].c = c /\ log[j].key = key}
  IN IF hops = {} THEN key
     ELSE log[CHOOSE j \in hops : \A k \in hops : k <= j].ctx

\* C21: has(key) answers true exactly when a binding has been registered
\* under the real key of key on the container or, that failing, on its parent
C21_HasExact ==
  \A i \in 1..Len(log) :
    log[i].op = "has"
      => LET c == log[i].c
             here == RegisteredBefore(i, c, RealKeyAt(i, c, log[i].key))
             above == /\ Parent(c) # Undef
                      /\ RegisteredBefore(i, Parent(c),
                                          RealKeyAt(i, Parent(c), log[i].key))
         IN (log[i].info = "true") <=> (here \/ above)

(***************************************************************************)
(* Lazy singletons: the root registers K with lazy() and the default       *)
(* lifecycle and has the alias A for it; K is resolved under both names,   *)
(* with and without a context, and the wrappers' values are read.          *)
(***************************************************************************)
NextLazy ==
  \/ UnboundOn("root", "K") /\ lazy("root", "K", "fK", "singleton")
  \/ "A" \notin DOMAIN aliases["root"] /\ alias("root", "A", "K")
  \/ \E key \in {"K", "A"}, ctx \in {Undef, "X"} : resolve("root", key, ctx)
  \/ resolveEnter
  \/ \E id \in 1..Len(lazies) : lazyValue(id)

SpecLazy == Init /\ [][NextLazy]_vars

\* entry i is a resolve of the lazy binding K, by its key or, once the alias
\* is there, by the alias
ResolvesLazy(i) ==
  /\ log[i].op = "resolve" /\ log[i].c = "root"
  /\ RegisteredBefore(i, "root", RealKeyAt(i, "root", log[i].key))

NextContainerDispose ==
  \/ /\ Count("singleton") = 0
     /\ singleton("root", "K", "fK", Undef)
  \/ /\ Count("singleton") = 1 /\ Count("scoped") = 0
     /\ scoped("root", "S", "fS", "close")
  \/ /\ Count("scoped") = 1
     /\ scoped("root", "F", "fT", "failingClose")
  \/ Count("scoped") = 2 /\ Len(scopes) = 0 /\ createScope("root")
  \/ Count("scoped") = 2 /\ \E key \in {"K", "S", "F"} : resolve("root", key, Undef)
  \/ resolveConcurrent("root", "K", Undef)
  \/ Count("scoped") = 2 /\ \E h \in Handlers : containerDispose("root", h)
  \/ \E k \in 1..Len(tasks) : disposeResume(k)
  \/ \E h \in Handlers : containerDisposeResume(h)
  \/ resolveEnter
  \/ runFactory

SpecContainerDispose == Init /\ [][NextContainerDispose]_vars

\* C23: when the promise of Container.dispose() has settled, every dispose
\* callback queued in the scope that was active has been invoked and the
\* container has no bindings, instances, aliases or active scope; a resolve
\* made on the container afterwards fails with a missing-binding error
C23_DisposeThenReset ==
  /\ \A m \in 1..Len(log) :
       log[m].op = "containerDispose" /\ log[m].scope # 0
         => \A i \in 1..(m - 1) :
              /\ log[i].op = "resolve" /\ log[i].kind = "ok"
              /\ log[i].scope = log[m].scope /\ log[i].key \in {"S", "F"}
              /\ \E j \in (i + 1)..m : log[j].op = "dispose" /\ log[j].call = log[m].call
              => \E p \in 1..Len(disposed) :
                   disposed[p].ev = "start" /\ disposed[p].val = log[i].val
  /\ log # << >> /\ log[Len(log)].op = "containerDispose"
       => LET c == log[Len(log)].c
          IN /\ bindings[c] = EmptyMap /\ instances[c] = EmptyMap
             /\ aliases[c] = EmptyMap /\ currentScope[c] = 0
  /\ \A m, i \in 1..Len(log) :
       /\ m < i
       /\ log[m].op = "containerDispose"
       /\ log[i].op = "resolve" /\ log[i].c = log[m].c
       /\ \A j \in (m + 1)..(i - 1) : log[j].op \notin {"singleton", "scoped"}
       => log[i].kind = "missing"

(***************************************************************************)
(* Contextual and conditional bindings of one key: K gets two              *)
(* unconditional bindings, one for env = production and one for the        *)
(* context X, in any order, and is resolved with and without the context   *)
(* before and after the change to production.                              *)
(***************************************************************************)
\* no binding with the factory is registered for key yet
NoFactory(key, f) ==
  \A i \in 1..Len(MapGet(bindings["root"], key, << >>)) :
    bindings["root"][key][i].factory # f

NextPriority ==
  \/ NoFactory("K", "fDefault") /\ bind("root", "K", "fDefault", Undef)
  \/ NoFactory("K", "fK") /\ bind("root", "K", "fK", Undef)
  \/ NoFactory("K", "fProd") /\ bind("root", "K", "fProd", "isProd")
  \/ NoFactory("K", "fX") /\ when("root", "X", "K", "fX")
  \/ setEnv("production")
  \/ \E ctx \in {Undef, "X"} : resolve("root", "K", ctx)
  \/ resolveEnter
  \/ runFactory

SpecPriority == Init /\ [][NextPriority]_vars

\* the least element of a non-empty set of numbers
Least(S) == CHOOSE i \in S : \A j \in S : i <= j

\* the stated priority over a non-empty binding list: the first binding for
\* the lookup context that is applicable, else the first context-free one
\* that is applicable, else the first binding
Priority(list, context) ==
  LET applicable(i) == list[i].condition = Undef \/ ConditionHolds(list[i].condition)
      a == {i \in 1..Len(list) : list[i].context = context /\ applicable(i)}
      b == {i \in 1..Len(list) : list[i].context = Undef /\ applicable(i)}
  IN IF a # {} THEN list[Least(a)]
     ELSE IF b # {} THEN list[Least(b)]
     ELSE list[1]

\* C24: a resolve whose lookup misses the binding cache and finds a binding
\* list for the key goes on with the binding the stated priority gives for
\* the list and the lookup context (the context argument, or the key)
C24_SelectionPriority ==
  [][(/\ frames # << >> /\ exc = NoExc /\ Top.pc = "enter"
      /\ LET c == Top.c
             realKey == RealKey(c, Top.key)
             context == IF Truthy(Top.ctx) THEN Top.ctx ELSE Top.key
         IN /\ CacheKey(realKey, context) \notin DOMAIN bindingCache[c]
            /\ realKey \in DOMAIN bindings[c])
       => /\ Len(frames') = Len(frames)
          /\ frames'[Len(frames')].pc = "factory"
          /\ frames'[Len(frames')].b =
               Priority(bindings[Top.c][RealKey(Top.c, Top.key)],
                        IF Truthy(Top.ctx) THEN Top.ctx ELSE Top.key)]_vars

\* K was resolved to the binding for the context, to the first of the two
\* unconditional bindings, and, before any unconditional binding was there
\* and outside production, to the conditional binding as the last resort
C24_Witness ==
  \E i, j, k \in 1..Len(log) :
    /\ IsResolve(log[i], "root", "K") /\ log[i].kind = "ok" /\ log[i].val.f = "fProd"
    /\ EnvAt(i) = "development"
    /\ IsResolve(log[j], "root", "K") /\ log[j].kind = "ok" /\ log[j].ctx = "X"
    /\ log[j].val.f = "fX"
    /\ IsResolve(log[k], "root", "K") /\ log[k].kind = "ok"
    /\ log[k].val.f \in {"fDefault", "fK"}
    /\ Bound(k, "bind", "K", "fDefault") /\ Bound(k, "bind", "K", "fK")

\* C25: every resolve that finds a binding list for the key goes on with the
\* binding the stated priority gives for the current list and the current
\* condition values, whatever the binding cache holds
C25_CacheTransparent ==
  [][(/\ frames # << >> /\ exc = NoExc /\ Top.pc = "enter"
      /\ RealKey(Top.c, Top.key) \in DOMAIN bindings[Top.c])
       => /\ Len(frames') = Len(frames)
          /\ frames'[Len(frames')].b =
               Priority(bindings[Top.c][RealKey(Top.c, Top.key)],
                        IF Truthy(Top.ctx) THEN Top.ctx ELSE Top.key)]_vars

(***************************************************************************)
(* Registrations on a container whose binding cache holds a selection: the *)
(* root binds K and resolves it, and then registers with each of the       *)
(* registration methods.                                                   *)
(***************************************************************************)
\* the binding cache of the root holds a selection
Cached == bindingCache["root"] # EmptyMap

NextCacheClear ==
  \/ UnboundOn("root", "K") /\ bind("root", "K", "fK", Undef)
  \/ Cached /\ UnboundOn("root", "T") /\ bind("root", "T", "fT", Undef)
  \/ Cached /\ UnboundOn("root", "S") /\ singleton("root", "S", "fS", Undef)
  \/ Cached /\ UnboundOn("root", "C") /\ scoped("root", "C", "fConn", Undef)
  \/ Cached /\ UnboundOn("root", "N") /\ lazy("root", "N", "fDefault", "singleton")
  \/ Cached /\ NoFactory("K", "fX") /\ when("root", "X", "K", "fX")
  \/ Cached /\ "A" \notin DOMAIN aliases["root"] /\ alias("root", "A", "K")
  \/ resolve("root", "K", Undef)
  \/ resolveEnter
  \/ runFactory

SpecCacheClear == Init /\ [][NextCacheClear]_vars

\* C26: right after a registration on a container (bind, singleton, scoped,
\* lazy, when().needs().give() or alias) its binding cache is empty
C26_RegistrationClearsCache ==
  /\ frames = << >>
  /\ log # << >>
  /\ log[Len(log)].op \in {"bind", "singleton", "scoped", "lazy", "when", "alias"}
  => bindingCache[log[Len(log)].c] = EmptyMap

(***************************************************************************)
(* Operations on a child: the root binds the singleton K, and from then on *)
(* every call is made on the child, which binds T and the scoped key S,    *)
(* has the alias A for K, creates a scope, resolves, asks has(), is reset  *)
(* and is disposed.                                                        *)
(***************************************************************************)
NextChild ==
  \/ Count("singleton") = 0 /\ singleton("root", "K", "fK", Undef)
  \/ Count("singleton") = 1 /\ Count("bind") = 0 /\ bind("child", "T", "fT", Undef)
  \/ Count("bind") = 1 /\ Count("scoped") = 0 /\ scoped("child", "S", "fS", "close")
  \/ Count("scoped") = 1 /\ Count("alias") = 0 /\ alias("child", "A", "K")
  \/ Count("alias") = 1 /\ Len(scopes) = 0 /\ createScope("child")
  \/ Len(scopes) = 1 /\ \E key \in {"K", "S"} : resolve("child", key, Undef)
  \/ Len(scopes) = 1 /\ has("child", "K")
  \/ Len(scopes) = 1 /\ reset("child")
  \/ Len(scopes) = 1 /\ containerDispose("child", "h1")
  \/ \E k \in 1..Len(tasks) : disposeResume(k)
  \/ containerDisposeResume("h1")
  \/ resolveEnter
  \/ runFactory

SpecChild == Init /\ [][NextChild]_vars

\* C27: once the root is set up, no step of a call made on the child changes
\* the root's registry, alias table, instance store, binding cache, active
\* scope or resolution stack
C27_ChildLeavesParent ==
  [][~UnboundOn("root", "K")
       => /\ bindings'["root"] = bindings["root"]
          /\ aliases'["root"] = aliases["root"]
          /\ instances'["root"] = instances["root"]
          /\ bindingCache'["root"] = bindingCache["root"]
          /\ currentScope'["root"] = currentScope["root"]
          /\ resolutionStack'["root"] = resolutionStack["root"]]_vars

(***************************************************************************)
(* Operations on a composed container: the root binds the singleton K and  *)
(* the scoped key S and has an active scope, the other container binds T;  *)
(* the two are composed, and from then on every call is made on the        *)
(* composed container.                                                     *)
(***************************************************************************)
NextComposeFrame ==
  \/ Count("singleton") = 0 /\ singleton("root", "K", "fK", Undef)
  \/ Count("singleton") = 1 /\ Count("scoped") = 0 /\ scoped("root", "S", "fS", "close")
  \/ Count("scoped") = 1 /\ Count("bind") = 0 /\ bind("other", "T", "fT", Undef)
  \/ Count("bind") = 1 /\ Len(scopes) = 0 /\ createScope("root")
  \/ Len(scopes) = 1 /\ compose
  \/ Count("compose") = 1 /\ \E key \in {"K", "S", "T"} : resolve("composed", key, Undef)
  \/ Count("compose") = 1 /\ \E key \in {"K", "N"} : has("composed", key)
  \/ resolveEnter
  \/ runFactory
  \/ runProxy

SpecComposeFrame == Init /\ [][NextComposeFrame]_vars

\* the input containers are set up: what follows is compose() and calls on
\* the composed container
InputsSetUp == Len(scopes) = 1

Extends(m2, m1) == \A k \in DOMAIN m1 : k \in DOMAIN m2 /\ m2[k] = m1[k]

NextAliasHierarchy ==
  \/ Count("singleton") = 0 /\ singleton("root", "K", "fK", Undef)
  \/ Count("singleton") = 1 /\ Count("alias") = 0 /\ alias("root", "A", "K")
  \/ Count("alias") = 1 /\ alias("child", "T", "K")
  \/ Count("alias") = 2 /\ \E key \in {"A", "T", "K"} : has("child", key)
  \/ Count("alias") = 2 /\ \E key \in {"A", "T", "K"} : resolve("child", key, Undef)
  \/ resolveEnter
  \/ runFactory

SpecAliasHierarchy == Init /\ [][NextAliasHierarchy]_vars

\* C29: the child, which has neither an alias nor a binding for A, does not
\* see the root's alias: has(A) on the child is false and resolve(A) on the
\* child fails with a missing-binding error
C29_AliasNotInherited ==
  \A i \in 1..Len(log) :
    /\ log[i].op = "has" /\ log[i].c = "child" /\ log[i].key = "A"
         => log[i].info = "false"
    /\ IsResolve(log[i], "child", "A") => log[i].kind = "missing"

\* C30: on the child, whose alias T stands for the key K that only the root
\* binds, has(T) is true as has(K) is, and resolve(T) returns the instance
\* resolve(K) returns
C30_AliasLawInHierarchy ==
  /\ \A i \in 1..Len(log) :
       log[i].op = "has" /\ log[i].c = "child" /\ log[i].key \in {"T", "K"}
         => log[i].info = "true"
  /\ \A i \in 1..Len(log) :
       IsResolve(log[i], "child", "T") \/ IsResolve(log[i], "child", "K")
         => log[i].kind = "ok"
  /\ \A i, j \in 1..Len(log) :
       IsResolve(log[i], "child", "T") /\ IsResolve(log[j], "child", "K")
         => log[i].val = log[j].val

(***************************************************************************)
(* Condition predicates that resolve: a singleton config, a logger bound   *)
(* under (c) => c.resolve('config').debug === true, a service K bound      *)
(* under a predicate that resolves K, and a service T whose factory        *)
(* resolves K.                                                             *)
(***************************************************************************)
NextConditionCall ==
  \/ Count("singleton") = 0 /\ singleton("root", "config", "fConfig", Undef)
  \/ Count("singleton") = 1 /\ Count("bind") = 0
       /\ bind("root", "logger", "fLogger", "configDebug")
  \/ Count("bind") = 1 /\ bind("root", "K", "fSelf", "resolvesK")
  \/ Count("bind") = 2 /\ bind("root", "T", "fPeer", Undef)
  \/ Count("bind") = 3 /\ \E key \in {"config", "logger", "K", "T"} : resolve("root", key, Undef)
  \/ resolveEnter
  \/ selectEnter
  \/ selectResume
  \/ selectUnwind
  \/ runFactory
  \/ unwind

SpecConditionCall == Init /\ [][NextConditionCall]_vars

\* the real keys of the resolve calls in progress on container c, in call
\* order
InProgress(c) ==
  LET s == SelectSeq(frames, LAMBDA fr : fr.c = c /\ fr.pc # "enter")
  IN [i \in 1..Len(s) |-> s[i].realKey]

\* C31: the resolution stack of every container holds no key twice, and it
\* is the sequence of the real keys of the resolve calls in progress on that
\* container, in call order
C31_StackIsCallsInProgress ==
  \A c \in Containers :
    /\ \A i, j \in 1..Len(resolutionStack[c]) :
         resolutionStack[c][i] = resolutionStack[c][j] => i = j
    /\ resolutionStack[c] = InProgress(c)

\* C32: a call that is selecting its binding has its real key on the
\* resolution stack, and a resolve of K, whose predicate resolves K again,
\* ends with a circular-dependency error
C32_PushBeforeSelect ==
  /\ \A i \in 1..Len(frames) :
       frames[i].pc = "select" => Includes(resolutionStack[frames[i].c], frames[i].realKey)
  /\ \A i \in 1..Len(log) :
       log[i].op = "resolve" /\ log[i].key = "K" => log[i].kind = "circular"

(***************************************************************************)
(* A cycle split between parent and child: the root binds A, whose factory *)
(* resolves B; the child binds B, whose factory resolves A.                *)
(***************************************************************************)
NextCrossCycle ==
  \/ UnboundOn("root", "A") /\ bind("root", "A", "fB", Undef)
  \/ UnboundOn("child", "B") /\ bind("child", "B", "fA", Undef)
  \/ \E c \in {"root", "child"}, key \in {"A", "B"} : resolve(c, key, Undef)
  \/ resolveEnter
  \/ runFactory
  \/ unwind

SpecCrossCycle == Init /\ [][NextCrossCycle]_vars

\* C33: once the root has bound A and the child B, child.resolve(B) fails
\* with the circular-dependency error of the chain B -> A -> B
C33_CrossContainerCycle ==
  \A i \in 1..Len(log) :
    /\ log[i].op = "resolve" /\ log[i].c = "child" /\ log[i].key = "B"
    /\ BoundOn(i, "root", "A") /\ BoundOn(i, "child", "B")
    => log[i].kind = "circular" /\ log[i].info = "B -> A -> B"

C33_Witness ==
  \E i \in 1..Len(log) :
    /\ log[i].op = "resolve" /\ log[i].c = "child" /\ log[i].key = "B"
    /\ BoundOn(i, "root", "A") /\ BoundOn(i, "child", "B")
    /\ log[i].kind = "circular"
    /\ calls["fB"] > 0

(***************************************************************************)
(* A dispose callback that fails: three scoped services, the second with a *)
(* callback that throws, resolved in one scope in any order, and the scope *)
(* disposed.                                                               *)
(***************************************************************************)
NextDisposeFail ==
  \/ Count("scoped") = 0 /\ scoped("root", "S1", "fS", "close")
  \/ Count("scoped") = 1 /\ scoped("root", "S2", "fT", "failingClose")
  \/ Count("scoped") = 2 /\ scoped("root", "S3", "fK", "close")
  \/ Count("scoped") = 3 /\ Len(scopes) = 0 /\ createScope("root")
  \/ Len(scopes) = 1 /\ \E key \in {"S1", "S2", "S3"} : resolve("root", key, Undef)
  \/ dispose(1)
  \/ \E k \in 1..Len(tasks) : disposeResume(k)
  \/ resolveEnter
  \/ runFactory

SpecDisposeFail == Init /\ [][NextDisposeFail]_vars

\* C34: once a dispose() has invoked the failing callback it invokes no
\* further callback; it ends rejected with that callback's error and never
\* fulfilled, and every failure recorded is the outcome of its dispose()
C34_DisposeRejects ==
  /\ \A i \in 1..Len(disposed) :
       disposed[i].fn = "failingClose" /\ disposed[i].ev = "start"
       => /\ \A j \in (i + 1)..Len(disposed) :
               disposed[j].call = disposed[i].call => disposed[j].ev # "start"
          /\ \A n \in 1..Len(log) :
               log[n].op = "disposed" /\ log[n].call = disposed[i].call
               => log[n].kind = "thrown" /\ log[n].info = "failingClose"
  /\ \A i \in 1..Len(disposed) :
       disposed[i].ev = "failed"
       => \E n \in 1..Len(log) :
            /\ log[n].op = "disposed" /\ log[n].call = disposed[i].call
            /\ log[n].kind = "thrown" /\ log[n].info = disposed[i].fn

\* a dispose() was rejected with a callback queued behind the failing one
C34_Witness ==
  \E n \in 1..Len(log), i \in 1..Len(disposed) :
    /\ log[n].op = "disposed" /\ log[n].kind = "thrown"
    /\ disposed[i].ev = "failed" /\ disposed[i].call = log[n].call
    /\ \E j \in 1..Len(scopes[1].disposables) :
         /\ scopes[1].disposables[j].fn = "failingClose"
         /\ j < Len(scopes[1].disposables)

(***************************************************************************)
(* A lazy binding with lifecycle 'scoped': container.lazy('K', f,          *)
(* 'scoped'), resolved with and without an active scope.                   *)
(***************************************************************************)
NextLazyScoped ==
  \/ UnboundOn("root", "K") /\ lazy("root", "K", "fK", "scoped")
  \/ ~UnboundOn("root", "K") /\ createScope("root")
  \/ ~UnboundOn("root", "K") /\ resolve("root", "K", Undef)
  \/ resolveEnter
  \/ \E id \in 1..Len(lazies) : lazyValue(id)

SpecLazyScoped == Init /\ [][NextLazyScoped]_vars

\* C35: a resolve of the lazy scoped binding with no active scope fails with
\* a no-active-scope error, and the resolves made within one scope return
\* the same Lazy wrapper
C35_LazyScoped ==
  \A i \in 1..Len(log) :
    log[i].op = "resolve" /\ log[i].key = "K"
    => /\ log[i].scope = 0 => log[i].kind = "noscope"
       /\ \A j \in 1..Len(log) :
            /\ log[j].op = "resolve" /\ log[j].key = "K"
            /\ log[j].scope = log[i].scope /\ log[i].scope # 0
            => log[i].kind = "ok" /\ log[j].val = log[i].val

(***************************************************************************)
(* Resolving after the scope was disposed: one scoped service, scopes made *)
(* by createScope() and by withScope(), disposed directly and by           *)
(* withScope().                                                            *)
(***************************************************************************)
NextDisposedScope ==
  \/ UnboundOn("root", "S") /\ scoped("root", "S", "fS", "close")
  \/ ~UnboundOn("root", "S") /\ createScope("root")
  \/ /\ ~UnboundOn("root", "S") /\ Len(scopes) < MaxScopes
     /\ \E h \in Handlers : withScope("root", h, "returns")
  \/ ~UnboundOn("root", "S") /\ resolve("root", "S", Undef)
  \/ \E s \in 1..Len(scopes) : dispose(s)
  \/ \E h \in Handlers : handlerStep(h)
  \/ \E h \in Handlers : handlerFinally(h)
  \/ \E h \in Handlers : handlerSettle(h)
  \/ \E k \in 1..Len(tasks) : disposeResume(k)
  \/ resolveEnter
  \/ runFactory

SpecDisposedScope == Init /\ [][NextDisposedScope]_vars

\* before entry i, a dispose() of scope s completed
DisposedBefore(i, s) ==
  \E n \in 1..(i - 1) : log[n].op = "disposed" /\ log[n].scope = s /\ log[n].kind = "ok"

\* C36: a resolve of the scoped key made while the container's active scope
\* is one whose dispose() has completed fails with a no-active-scope error
C36_DisposedScopeUnused ==
  \A i \in 1..Len(log) :
    /\ log[i].op = "resolve" /\ log[i].key = "S"
    /\ log[i].scope # 0 /\ DisposedBefore(i, log[i].scope)
    => log[i].kind = "noscope"

(***************************************************************************)
(* withScope() inside an outer scope: one scoped service, scopes made by   *)
(* createScope(), and one withScope() call whose callback returns or       *)
(* throws.                                                                 *)
(***************************************************************************)
NextNestedScope ==
  \/ UnboundOn("root", "S") /\ scoped("root", "S", "fS", "close")
  \/ ~UnboundOn("root", "S") /\ createScope("root")
  \/ /\ ~UnboundOn("root", "S") /\ Len(scopes) < MaxScopes
     /\ \E cb \in {"returns", "throws"} : withScope("root", "h1", cb)
  \/ ~UnboundOn("root", "S") /\ resolve("root", "S", Undef)
  \/ handlerStep("h1")
  \/ handlerFinally("h1")
  \/ handlerSettle("h1")
  \/ \E k \in 1..Len(tasks) : disposeResume(k)
  \/ resolveEnter
  \/ runFactory

SpecNestedScope == Init /\ [][NextNestedScope]_vars

\* no scope was created between entries n and i
NoScopeBetween(n, i) == \A m \in (n + 1)..(i - 1) : log[m].op # "createScope"

\* C37: when withScope() has completed, the active scope is the one that
\* was active when it was called, the scope created just before its own or
\* none, and the resolves made until the next createScope() use that scope
C37_WithScopeRestores ==
  \A n \in 1..Len(log) :
    log[n].op = "withScope"
    => /\ NoScopeBetween(n, Len(log) + 1) => currentScope["root"] = log[n].scope - 1
       /\ \A i \in (n + 1)..Len(log) :
            log[i].op = "resolve" /\ NoScopeBetween(n, i)
            => log[i].scope = log[n].scope - 1

(***************************************************************************)
(* Several dispose() calls on one scope: two scoped services, the second   *)
(* with a callback that succeeds or fails, and dispose() calls one after   *)
(* the other or overlapping.                                               *)
(***************************************************************************)
NextDisposeOverlap ==
  \/ Count("scoped") = 0 /\ scoped("root", "S1", "fS", "close")
  \/ /\ Count("scoped") = 1
     /\ \E fn \in {"close", "failingClose"} : scoped("root", "S2", "fT", fn)
  \/ Count("scoped") = 2 /\ Len(scopes) = 0 /\ createScope("root")
  \/ Len(scopes) = 1 /\ \E key \in {"S1", "S2"} : resolve("root", key, Undef)
  \/ dispose(1)
  \/ disposeConcurrent(1)
  \/ \E k \in 1..Len(tasks) : disposeResume(k)
  \/ resolveEnter
  \/ runFactory

SpecDisposeOverlap == Init /\ [][NextDisposeOverlap]_vars

\* C38: over the lifetime of a scope each dispose callback queued in it is
\* invoked at most once, whatever dispose() calls are made on the scope
C38_CallbackAtMostOnce ==
  \A i, j \in 1..Len(disposed) :
    /\ disposed[i].ev = "start" /\ disposed[j].ev = "start"
    /\ disposed[i].s = disposed[j].s
    /\ disposed[i].fn = disposed[j].fn /\ disposed[i].val = disposed[j].val
    => i = j

(***************************************************************************)
(* Reads of Lazy.value whose factory resolves (Lazy.ts:30-36).  A read in  *)
(* progress is a frame with pc "value": serial is the wrapper, i the       *)
(* position in the factory (0 not called, 1 resolving, 2 reading the value *)
(* of what the resolve returned, 3 returning), ret what the last call      *)
(* returned.                                                               *)
(***************************************************************************)
ValueFrame(id) ==
  [c |-> lazies[id].c, key |-> lazies[id].b.key, ctx |-> Undef, realKey |-> "",
   prev |-> Undef, b |-> lazies[id].b, pc |-> "value", serial |-> id, i |-> 0,
   ret |-> NoValue]

\* the read fr ends with outcome out: the outcome of a read by the
\* application is recorded, that of a read by a factory goes to the factory
FinishValue(rest, fr, out) ==
  IF rest = << >>
  THEN /\ frames' = << >>
       /\ exc' = NoExc
       /\ log' = Append(log, [LogEntry("value", fr.c, fr.key, Undef, out, 0)
                                EXCEPT !.call = fr.serial])
  ELSE Finish(rest, fr, out)

\* a further call when the call stack is full throws a RangeError
Call(fr) ==
  IF Len(frames) < MaxDepth
  THEN /\ frames' = Append(frames, fr)
       /\ exc' = exc
  ELSE /\ frames' = frames
       /\ exc' = [kind |-> "overflow", info |-> "Maximum call stack size exceeded"]

\* the application reads wrapper.value of the id-th Lazy wrapper, whose
\* factory resolves
lazyRead(id) ==
  /\ Idle
  /\ id \in 1..Len(lazies)
  /\ LazyFactoryDep(lazies[id].b.factory) # Undef
  /\ Count("value") < MaxReads
  /\ frames' = << ValueFrame(id) >>
  /\ UNCHANGED << containerVars, scopes, tasks, handlers, env, calls, disposed,
                  lazies, exc, log >>

\* get value(): an initialized wrapper returns its value; otherwise
\* this.factory() runs: it resolves its key, reads .value of the Lazy it
\* got, and returns that, upon which the wrapper is initialized
lazyRun ==
  /\ frames # << >>
  /\ exc = NoExc
  /\ Top.pc = "value"
  /\ LET fr == Top
         id == fr.serial
         f == fr.b.factory
         at(n) == [frames EXCEPT ![Len(frames)].i = n]
     IN IF fr.i = 0 /\ lazies[id].initialized
        THEN /\ FinishValue(Pop(frames), fr, Ok(lazies[id].value))
             /\ UNCHANGED << calls, lazies >>
        ELSE IF fr.i = 0
        THEN /\ calls' = [calls EXCEPT ![f] = @ + 1]
             /\ IF Len(frames) < MaxDepth
                THEN /\ frames' = Append(at(1), Frame(fr.c, LazyFactoryDep(f), Undef))
                     /\ exc' = exc
                ELSE Call(fr)
             /\ UNCHANGED << lazies, log >>
        ELSE IF fr.i = 2
        THEN /\ Call(ValueFrame(fr.ret.n))
             /\ UNCHANGED << calls, lazies, log >>
        ELSE /\ lazies' = [lazies EXCEPT ![id].initialized = TRUE, ![id].value = fr.ret]
             /\ FinishValue(Pop(frames), fr, Ok(fr.ret))
             /\ UNCHANGED calls
  /\ UNCHANGED << containerVars, scopes, tasks, handlers, env, disposed >>

\* an error thrown inside the factory leaves the getter: the wrapper stays
\* uninitialized
lazyUnwind ==
  /\ frames # << >>
  /\ exc # NoExc
  /\ Top.pc = "value"
  /\ FinishValue(Pop(frames), Top, Err(exc.kind, exc.info))
  /\ UNCHANGED << containerVars, scopes, tasks, handlers, env, calls, disposed, lazies >>

(***************************************************************************)
(* A cycle through a lazy factory: K is a lazy singleton whose factory     *)
(* resolves K and reads the value of the Lazy it gets; T is a lazy         *)
(* singleton whose factory resolves nothing.                               *)
(***************************************************************************)
NextLazyCycle ==
  \/ Count("lazy") = 0 /\ lazy("root", "K", "fLazySelf", "singleton")
  \/ Count("lazy") = 1 /\ lazy("root", "T", "fT", "singleton")
  \/ Count("lazy") = 2 /\ \E key \in {"K", "T"} : resolve("root", key, Undef)
  \/ resolveEnter
  \/ \E id \in 1..Len(lazies) : lazyValue(id)
  \/ \E id \in 1..Len(lazies) : lazyRead(id)
  \/ lazyRun
  \/ lazyUnwind

SpecLazyCycle == Init /\ [][NextLazyCycle]_vars

\* C39: a read of the value of K, whose construction is cyclic, ends with a
\* circular-dependency error, and no call ends with the overflow of the
\* call stack
C39_CyclesAreDetected ==
  \A i \in 1..Len(log) :
    /\ log[i].kind # "overflow"
    /\ log[i].op = "value" /\ log[i].key = "K" => log[i].kind = "circular"

(***************************************************************************)
(* Singletons whose construction fails: A is a singleton whose factory     *)
(* resolves S, and S's factory throws unless the environment is            *)
(* production; B's factory resolves A; K is a singleton whose factory      *)
(* always throws.                                                          *)
(***************************************************************************)
NextFailedSingleton ==
  \/ Count("singleton") = 0 /\ singleton("root", "A", "fN", Undef)
  \/ Count("singleton") = 1 /\ Count("bind") = 0 /\ bind("root", "S", "fThrow", "isDev")
  \/ Count("bind") = 1 /\ bind("root", "S", "fT", "isProd")
  \/ Count("bind") = 2 /\ bind("root", "B", "fA", Undef)
  \/ Count("bind") = 3 /\ Count("singleton") = 1 /\ singleton("root", "K", "fThrow", Undef)
  \/ Count("singleton") = 2 /\ \E e \in EnvValues : setEnv(e)
  \/ Count("singleton") = 2 /\ \E key \in {"A", "B", "K"} : resolve("root", key, Undef)
  \/ resolveEnter
  \/ runFactory
  \/ unwind

SpecFailedSingleton == Init /\ [][NextFailedSingleton]_vars

\* the resolves of one of the keys that ended with an error, or with a value
Ended(keySet, ok) ==
  {i \in 1..Len(log) : /\ log[i].op = "resolve" /\ log[i].key \in keySet
                       /\ (log[i].kind = "ok") = ok}

\* C40: a resolve during which the factory of a singleton throws ends with
\* the factory's error; the stack is at all times the keys of the calls in
\* progress; between calls the instance store holds A exactly when a
\* construction of A succeeded and never holds K, the factory of A has been
\* invoked once per failed resolve and once more for the success, and every
\* resolve of A that succeeds returns the stored instance
C40_FailureLeavesNoTrace ==
  /\ resolutionStack["root"] = InProgress("root")
  /\ \A i \in Ended({"A", "B", "K"}, FALSE) :
       log[i].kind = "thrown" /\ log[i].info = "fThrow"
  /\ Ended({"K"}, TRUE) = {}
  /\ Idle => /\ "K" \notin DOMAIN instances["root"]
             /\ "A" \in DOMAIN instances["root"] <=> Ended({"A", "B"}, TRUE) # {}
             /\ calls["fN"] = Cardinality(Ended({"A", "B"}, FALSE))
                              + (IF Ended({"A", "B"}, TRUE) # {} THEN 1 ELSE 0)
             /\ calls["fThrow"] = Cardinality(Ended({"A", "B", "K"}, FALSE))
             /\ \A i \in Ended({"A"}, TRUE) : log[i].val = instances["root"]["A"]

\* the construction of A failed, directly or inside B's factory, and a later
\* resolve of A succeeded with the object of the factory's second invocation
C40_Witness ==
  /\ Idle
  /\ \E i, j \in 1..Len(log) :
       /\ i < j
       /\ log[i].op = "resolve" /\ log[i].key \in {"A", "B"} /\ log[i].kind = "thrown"
       /\ log[j].op = "resolve" /\ log[j].key = "A" /\ log[j].kind = "ok"
       /\ log[j].val = Value("fN", 2)

(***************************************************************************)
(* The whole program: every scenario above.                                *)
(***************************************************************************)
Next ==
  \/ NextFailedSingleton
  \/ NextLazyCycle
  \/ NextDisposeOverlap
  \/ NextNestedScope
  \/ NextDisposedScope
  \/ NextLazyScoped
  \/ NextDisposeFail
  \/ NextCrossCycle
  \/ NextConditionCall
  \/ NextAliasHierarchy
  \/ NextComposeFrame
  \/ NextChild
  \/ NextCacheClear
  \/ NextPriority
  \/ NextContainerDispose
  \/ NextLazy
  \/ NextHas
  \/ NextReset
  \/ NextHandlers
  \/ NextDispose
  \/ NextConsumer
  \/ NextComposeContext
  \/ NextCompose
  \/ NextHierarchy
  \/ NextConditionSingleton
  \/ NextSingleton
  \/ NextTransient
  \/ NextScoped
  \/ NextNoScope
  \/ NextCycle
  \/ NextErrors
  \/ NextContext
  \/ NextCondition

Spec == Init /\ [][Next]_vars

====
